---- MODULE Spec2Model ----
(***************************************************************************)
(* Resilient fetch-and-cache pipeline of the weather API service:          *)
(* retry_service.py (retry with exponential backoff and jitter),           *)
(* cache_service.py (DynamoDB TTL cache), external_api.py (provider        *)
(* client) and weather_service.py (read-through orchestration).            *)
(*                                                                         *)
(* Durations are in milliseconds (1.0 s = 1000), jitter ranges in percent  *)
(* (0.1 = 10), the clock in whole seconds.                                 *)
(***************************************************************************)
EXTENDS Integers, Sequences, FiniteSets, TLC

VARIABLES
    store,  \* the DynamoDB table: a set of items, at most one per (PK, SK)
    now,    \* the clock, int(datetime.utcnow().timestamp())
    stack,  \* the activations of the running request, the caller first
    rt,     \* the frame of the retry wrapper that is executing
    ret,    \* what the function that returned last returned or raised
    stats,  \* what the running (or last) top-level operation did so far
    populated,  \* the entry the last read-through wrote, while the table is
                \* otherwise unchanged: the request's spelling and its expiry
    loop    \* the event loop of the server: the tasks of the requests it
            \* serves concurrently and the task that holds its thread

vars == <<store, now, stack, rt, ret, stats, populated, loop>>

(***************************************************************************)
(* Bounds of the model.                                                    *)
(***************************************************************************)
MaxAttempts == 5        \* largest max_attempts a decorated call is given
JitterSteps == 1        \* random.uniform draws k/JitterSteps, k in -JitterSteps..JitterSteps
MaxClock == 3           \* the clock stops here
ttl_minutes == 2        \* the time to live, in ticks of the clock
MaxBatch == 2           \* longest list given to a batch operation
MaxExcess == 2          \* how far a list goes beyond a limit of the batch operations
MAX_BATCH_CITIES == 3   \* largest batch the endpoint accepts

(***************************************************************************)
(* config.py: class RetryConfig.                                           *)
(***************************************************************************)
API_MAX_ATTEMPTS == 3
API_BASE_DELAY == 1000
API_BACKOFF_MULTIPLIER == 2
API_MAX_DELAY == 30000
API_JITTER == TRUE
API_JITTER_RANGE == 10
DYNAMODB_MAX_ATTEMPTS == 3
DYNAMODB_BASE_DELAY == 500
DYNAMODB_BACKOFF_MULTIPLIER == 2
DYNAMODB_MAX_DELAY == 10000
DYNAMODB_JITTER == TRUE
DYNAMODB_JITTER_RANGE == 10

(***************************************************************************)
(* Exceptions.  n is the number of the invocation that raised it (the      *)
(* tests raise f"Attempt {call_count} failed"), status an HTTP status      *)
(* (0: none), code a botocore error code ("": none).                       *)
(***************************************************************************)
Exc(type, status, code, n) ==
    [type |-> type, status |-> status, code |-> code, n |-> n]

NoException == Exc("None", 0, "", 0)

\* class RetryError: message "... failed after {max_attempts} attempts" and
\* last_exception.
RetryError(attempts, last_exception) ==
    [type |-> "RetryError", status |-> 0, code |-> "", n |-> 0,
     attempts |-> attempts, last_exception |-> last_exception]

\* The classes each exception type is an instance of (Python's MRO, cut to the
\* classes the code names in except clauses and retryable_exceptions tuples).
Bases(type) ==
    CASE type = "ClientResponseError" ->
            {"ClientResponseError", "aiohttp.ClientError", "Exception"}
      [] type = "ClientConnectionError" ->
            {"ClientConnectionError", "aiohttp.ClientError", "Exception"}
      [] type = "ServerTimeoutError" ->
            {"ServerTimeoutError", "aiohttp.ClientError", "asyncio.TimeoutError",
             "Exception"}
      [] type = "asyncio.TimeoutError" -> {"asyncio.TimeoutError", "Exception"}
      [] type = "ConnectionError" -> {"ConnectionError", "Exception"}
      [] type = "ClientError" -> {"ClientError", "Exception"}
      [] type = "EndpointConnectionError" ->
            {"EndpointConnectionError", "BotoCoreError", "Exception"}
      [] type = "CacheError" -> {"CacheError", "Exception"}
      [] type = "WeatherAPIError" -> {"WeatherAPIError", "Exception"}
      [] type = "ValueError" -> {"ValueError", "Exception"}
      [] type = "RetryError" -> {"RetryError", "Exception"}
      [] OTHER -> {}

isinstance(exception, classes) == Bases(exception.type) \cap classes # {}

(***************************************************************************)
(* retry_service.py                                                        *)
(***************************************************************************)
RECURSIVE Pow(_, _)
Pow(b, e) == IF e <= 0 THEN 1 ELSE b * Pow(b, e - 1)

Min(a, b) == IF a <= b THEN a ELSE b
Max(a, b) == IF a >= b THEN a ELSE b

\* class RetryConfig: the constructor stores its arguments unchecked.
RetryConfig(max_attempts, base_delay, backoff_multiplier, max_delay, jitter, jitter_range) ==
    [max_attempts |-> max_attempts, base_delay |-> base_delay,
     backoff_multiplier |-> backoff_multiplier, max_delay |-> max_delay,
     jitter |-> jitter, jitter_range |-> jitter_range]

\* random.uniform(-jitter_amount, jitter_amount): the draw u in
\* -JitterSteps..JitterSteps stands for the fraction u/JitterSteps of the range.
JitterDraws == (0 - JitterSteps)..JitterSteps

uniform(jitter_amount, u) == (jitter_amount * u) \div JitterSteps

\* calculate_delay with the exponent attempt instead of attempt - 1.
calculate_delay_exponent(attempt, config, u) ==
    LET exp_delay == config.base_delay * Pow(config.backoff_multiplier, attempt)
        delay == Min(exp_delay, config.max_delay)
        jitter_amount == (delay * config.jitter_range) \div 100
        jitter_offset == uniform(jitter_amount, u)
    IN  IF config.jitter THEN Max(0, delay + jitter_offset) ELSE delay

\* calculate_delay without the floor max(0, ...).
calculate_delay_no_floor(attempt, config, u) ==
    LET exp_delay == config.base_delay * Pow(config.backoff_multiplier, attempt - 1)
        delay == Min(exp_delay, config.max_delay)
        jitter_amount == (delay * config.jitter_range) \div 100
        jitter_offset == uniform(jitter_amount, u)
    IN  IF config.jitter THEN delay + jitter_offset ELSE delay

\* calculate_delay with the cap applied to nothing: min(delay, max_delay) left
\* out.
calculate_delay_no_cap(attempt, config, u) ==
    LET delay == config.base_delay * Pow(config.backoff_multiplier, attempt - 1)
        jitter_amount == (delay * config.jitter_range) \div 100
        jitter_offset == uniform(jitter_amount, u)
    IN  IF config.jitter THEN Max(0, delay + jitter_offset) ELSE delay

\* calculate_delay(attempt, config), with u the random draw.
calculate_delay(attempt, config, u) ==
    LET exp_delay == config.base_delay * Pow(config.backoff_multiplier, attempt - 1)
        delay == Min(exp_delay, config.max_delay)
        jitter_amount == (delay * config.jitter_range) \div 100
        jitter_offset == uniform(jitter_amount, u)
    IN  IF config.jitter THEN Max(0, delay + jitter_offset) ELSE delay

non_retryable_codes ==
    {"AccessDenied", "InvalidParameterValue", "ValidationException",
     "ResourceNotFound", "ItemNotFound"}

retryable_codes ==
    {"ThrottlingException", "ProvisionedThroughputExceededException",
     "RequestLimitExceeded", "ServiceUnavailable", "InternalServerError"}

\* error_code.startswith("5"), over the codes the model raises.
StartsWith5(error_code) == error_code \in {"500", "503"}

\* The predicate that looks at the type of the exception only.
should_retry_exception_by_type(exception, retryable_exceptions) ==
    isinstance(exception, retryable_exceptions)

\* should_retry_exception that retries every ClientError whose code is not in
\* non_retryable_codes.
should_retry_exception_default_allow(exception, retryable_exceptions) ==
    IF ~isinstance(exception, retryable_exceptions) THEN FALSE
    ELSE IF isinstance(exception, {"ClientResponseError"})
         THEN ~(400 <= exception.status /\ exception.status < 500)
    ELSE IF isinstance(exception, {"ClientError"})
         THEN exception.code \notin non_retryable_codes
    ELSE TRUE

\* should_retry_exception(exception, retryable_exceptions)
should_retry_exception(exception, retryable_exceptions) ==
    IF ~isinstance(exception, retryable_exceptions) THEN FALSE
    ELSE IF isinstance(exception, {"ClientResponseError"})
         THEN ~(400 <= exception.status /\ exception.status < 500)
    ELSE IF isinstance(exception, {"ClientError"})
         THEN IF exception.code \in non_retryable_codes THEN FALSE
              ELSE exception.code \in retryable_codes \/ StartsWith5(exception.code)
    ELSE TRUE

(***************************************************************************)
(* Python values.  Every value is a record with a kind, so that any two    *)
(* can be compared.                                                        *)
(***************************************************************************)
None == [kind |-> "None"]
PyBool(b) == [kind |-> "bool", b |-> b]
PyInt(i) == [kind |-> "int", i |-> i]

\* The result of one invocation of a function.
Returned(value) == [ok |-> TRUE, value |-> value, exc |-> NoException]
Raised(e) == [ok |-> FALSE, value |-> None, exc |-> e]

\* The frame of a wrapper: the locals of wrapper() (attempt, last_exception,
\* delay), where it stands (status) and how it ended (value, exc), with the
\* counts of invocations and sleeps and the class of each invocation's
\* outcome (hist), the error the function raised last (thrown).
Frame(variant, config, retryable_exceptions) ==
    [variant |-> variant, config |-> config,
     retryable_exceptions |-> retryable_exceptions,
     attempt |-> 1, last_exception |-> NoException, delay |-> 0,
     status |-> IF config.max_attempts >= 1 THEN "running" ELSE "raised",
     value |-> None,
     exc |-> IF config.max_attempts >= 1 THEN NoException
             ELSE RetryError(config.max_attempts, NoException),
     calls |-> 0, sleeps |-> 0, hist |-> <<>>, thrown |-> NoException]

NoFrame ==
    [Frame("none", RetryConfig(1, 0, 1, 0, FALSE, 0), {}) EXCEPT !.status = "none"]

\* A wrapper whose loop tests its bound after the body: the function is
\* invoked once at least.
retry_sync_at_least_once(config, retryable_exceptions) ==
    [Frame("sync", config, retryable_exceptions)
        EXCEPT !.status = "running", !.exc = NoException]

\* retry_sync(config, retryable_exceptions): entering wrapper().  With
\* max_attempts < 1 the for loop has no iteration and RetryError is raised.
retry_sync(config, retryable_exceptions) ==
    Frame("sync", config, retryable_exceptions)

\* retry_async(config, retryable_exceptions): entering wrapper().
retry_async(config, retryable_exceptions) ==
    Frame("async", config, retryable_exceptions)

\* A tuple of retryable exceptions that holds every exception.
api_retryable_any_exception == {"Exception"}

api_retryable ==
    {"aiohttp.ClientError", "ServerTimeoutError", "asyncio.TimeoutError",
     "ConnectionError"}

api_retry(config) == retry_async(config, api_retryable)
dynamodb_retry(config) == retry_sync(config, {"ClientError"})
dynamodb_retry_async(config) == retry_async(config, {"ClientError"})

\* What the log of outcomes (hist) records of an invocation.
OutcomeClass(f, outcome) ==
    IF outcome.ok THEN "ok"
    ELSE IF should_retry_exception(outcome.exc, f.retryable_exceptions)
         THEN "retryable" ELSE "fatal"

Invoked(f, outcome) ==
    [f EXCEPT !.calls = @ + 1,
              !.hist = Append(@, OutcomeClass(f, outcome)),
              !.thrown = IF outcome.ok THEN @ ELSE outcome.exc]

\* retry_sync's loop without the break of the last attempt: it sleeps after
\* every retryable failure.
retry_sync_iteration_no_break(f, outcome, u) ==
    LET g == Invoked(f, outcome)
        e == outcome.exc
    IN  IF outcome.ok
        THEN [g EXCEPT !.status = "returned", !.value = outcome.value]
        ELSE IF ~should_retry_exception(e, f.retryable_exceptions)
        THEN [g EXCEPT !.last_exception = e, !.status = "raised", !.exc = e]
        ELSE [g EXCEPT !.last_exception = e, !.status = "sleeping",
                       !.delay = calculate_delay(f.attempt, f.config, u)]

\* retry_sync's loop with last_exception assigned by the first failure only.
retry_sync_iteration_first_error(f, outcome, u) ==
    LET g == Invoked(f, outcome)
        e == IF f.last_exception = NoException THEN outcome.exc
             ELSE f.last_exception
    IN  IF outcome.ok
        THEN [g EXCEPT !.status = "returned", !.value = outcome.value]
        ELSE IF ~should_retry_exception(outcome.exc, f.retryable_exceptions)
        THEN [g EXCEPT !.last_exception = e, !.status = "raised", !.exc = e]
        ELSE IF f.attempt = f.config.max_attempts
        THEN [g EXCEPT !.last_exception = e, !.status = "raised",
                       !.exc = RetryError(f.config.max_attempts, e)]
        ELSE [g EXCEPT !.last_exception = e, !.status = "sleeping",
                       !.delay = calculate_delay(f.attempt, f.config, u)]

\* One iteration of the loop of retry_sync's wrapper(), up to time.sleep:
\* `outcome` is what func(*args, **kwargs) did, u the jitter draw.
retry_sync_iteration(f, outcome, u) ==
    LET g == Invoked(f, outcome)
        e == outcome.exc
    IN  IF outcome.ok
        THEN [g EXCEPT !.status = "returned", !.value = outcome.value]
        ELSE IF ~should_retry_exception(e, f.retryable_exceptions)
        THEN [g EXCEPT !.last_exception = e, !.status = "raised", !.exc = e]
        ELSE IF f.attempt = f.config.max_attempts
        THEN [g EXCEPT !.last_exception = e, !.status = "raised",
                       !.exc = RetryError(f.config.max_attempts, e)]
        ELSE [g EXCEPT !.last_exception = e, !.status = "sleeping",
                       !.delay = calculate_delay(f.attempt, f.config, u)]

\* retry_async's loop with every failure wrapped in RetryError.
retry_async_iteration_wraps_all(f, outcome, u) ==
    LET g == Invoked(f, outcome)
        e == outcome.exc
    IN  IF outcome.ok
        THEN [g EXCEPT !.status = "returned", !.value = outcome.value]
        ELSE IF ~should_retry_exception(e, f.retryable_exceptions)
                \/ f.attempt = f.config.max_attempts
        THEN [g EXCEPT !.last_exception = e, !.status = "raised",
                       !.exc = RetryError(f.config.max_attempts, e)]
        ELSE [g EXCEPT !.last_exception = e, !.status = "sleeping",
                       !.delay = calculate_delay(f.attempt, f.config, u)]

\* retry_async's loop with `return result` under `if attempt > 1`: a success
\* of the first attempt is not returned and the loop goes on.
retry_async_iteration_return_indented(f, outcome, u) ==
    LET g == Invoked(f, outcome)
        e == outcome.exc
    IN  IF outcome.ok
        THEN IF f.attempt > 1 \/ f.attempt = f.config.max_attempts
             THEN [g EXCEPT !.status = "returned", !.value = outcome.value]
             ELSE [g EXCEPT !.attempt = @ + 1]
        ELSE IF ~should_retry_exception(e, f.retryable_exceptions)
        THEN [g EXCEPT !.last_exception = e, !.status = "raised", !.exc = e]
        ELSE IF f.attempt = f.config.max_attempts
        THEN [g EXCEPT !.last_exception = e, !.status = "raised",
                       !.exc = RetryError(f.config.max_attempts, e)]
        ELSE [g EXCEPT !.last_exception = e, !.status = "sleeping",
                       !.delay = calculate_delay(f.attempt, f.config, u)]

\* One iteration of the loop of retry_async's wrapper(), up to asyncio.sleep.
retry_async_iteration(f, outcome, u) ==
    LET g == Invoked(f, outcome)
        e == outcome.exc
    IN  IF outcome.ok
        THEN [g EXCEPT !.status = "returned", !.value = outcome.value]
        ELSE IF ~should_retry_exception(e, f.retryable_exceptions)
        THEN [g EXCEPT !.last_exception = e, !.status = "raised", !.exc = e]
        ELSE IF f.attempt = f.config.max_attempts
        THEN [g EXCEPT !.last_exception = e, !.status = "raised",
                       !.exc = RetryError(f.config.max_attempts, e)]
        ELSE [g EXCEPT !.last_exception = e, !.status = "sleeping",
                       !.delay = calculate_delay(f.attempt, f.config, u)]

Iteration(f, outcome, u) ==
    IF f.variant = "sync" THEN retry_sync_iteration(f, outcome, u)
    ELSE retry_async_iteration(f, outcome, u)

\* time.sleep(delay) / await asyncio.sleep(delay) returns: the next iteration.
\* delay is dead once slept and is cleared.
Woken(f) ==
    [f EXCEPT !.status = "running", !.attempt = @ + 1, !.sleeps = @ + 1,
              !.delay = 0]

(***************************************************************************)
(* Strings are sequences of characters over a small alphabet.              *)
(***************************************************************************)
LowerCase == {"a", "b"}
UpperCase == {"A", "B"}

upper(c) == CASE c = "a" -> "A" [] c = "b" -> "B" [] OTHER -> c
lower(c) == CASE c = "A" -> "a" [] c = "B" -> "b" [] OTHER -> c
IsCased(c) == c \in LowerCase \cup UpperCase
IsSpace(c) == c = " "

RECURSIVE lstrip(_)
lstrip(s) == IF s # <<>> /\ IsSpace(Head(s)) THEN lstrip(Tail(s)) ELSE s

RECURSIVE rstrip(_)
rstrip(s) ==
    IF s # <<>> /\ IsSpace(s[Len(s)]) THEN rstrip(SubSeq(s, 1, Len(s) - 1)) ELSE s

\* str.strip()
strip(s) == rstrip(lstrip(s))

\* str.title(): a cased character is upper-cased when the character before it
\* is not cased, lower-cased when it is.
title(s) ==
    [i \in 1..Len(s) |->
        IF ~IsCased(s[i]) THEN s[i]
        ELSE IF i > 1 /\ IsCased(s[i - 1]) THEN lower(s[i]) ELSE upper(s[i])]

\* The spellings requests are made with, and the display names the provider
\* answers with.
Cities == {<<"a", "b">>, <<" ", "A", "B", " ">>, <<"b">>}
ProviderNames == {<<"A", "b">>, <<"B">>}

(***************************************************************************)
(* models.py and the DynamoDB table.  A record is told by its city: the    *)
(* other fields (temperature, description, humidity, timestamp) are        *)
(* carried from the provider's answer to the item and back unchanged.      *)
(***************************************************************************)
WeatherResponse(city) == [kind |-> "WeatherResponse", city |-> city]

PyStr(s) == [kind |-> "str", s |-> s]
PyList(items) == [kind |-> "list", items |-> items]
PyDict(values) == [kind |-> "dict", values |-> values]

\* table.get_item(Key={"PK": cache_key, "SK": "DATA"}): the items found.
get_item(table, PK) == {i \in table : i.PK = PK /\ i.SK = "DATA"}

\* put_item with ConditionExpression attribute_not_exists(PK): an item that is
\* there is kept.
put_item_if_not_exists(table, item) ==
    IF \E i \in table : i.PK = item.PK /\ i.SK = item.SK THEN table
    ELSE table \cup {item}

\* table.put_item(Item=item): unconditional, replaces the item of that key.
put_item(table, item) ==
    {i \in table : ~(i.PK = item.PK /\ i.SK = item.SK)} \cup {item}

\* dynamodb.batch_get_item(RequestItems={table_name: {"Keys": cache_keys}})
batch_get_item(table, cache_keys) ==
    {i \in table : \E j \in 1..Len(cache_keys) :
        i.PK = cache_keys[j].PK /\ i.SK = cache_keys[j].SK}

\* dynamodb.batch_write_item(RequestItems={table_name: batch_items})
RECURSIVE batch_write_item(_, _)
batch_write_item(table, batch_items) ==
    IF batch_items = <<>> THEN table
    ELSE batch_write_item(put_item(table, Head(batch_items)), Tail(batch_items))

\* A slice that takes the whole list.
TakeAll(list, n) == list

\* Python's list[:n]
Take(list, n) == SubSeq(list, 1, Min(n, Len(list)))

(***************************************************************************)
(* cache_service.py: class DynamoDBCacheService.                           *)
(***************************************************************************)
BATCH_GET_LIMIT == 100
BATCH_WRITE_LIMIT == 25

dynamodb_retry_config ==
    RetryConfig(DYNAMODB_MAX_ATTEMPTS, DYNAMODB_BASE_DELAY,
                DYNAMODB_BACKOFF_MULTIPLIER, DYNAMODB_MAX_DELAY, DYNAMODB_JITTER,
                DYNAMODB_JITTER_RANGE)

\* _generate_cache_key without city.strip().
_generate_cache_key_no_strip(city) == <<"WEATHER#">> \o title(city)

\* _generate_cache_key(city)
_generate_cache_key(city) == <<"WEATHER#">> \o title(strip(city))

\* _generate_expires_at()
_generate_expires_at(clock) == clock + ttl_minutes

\* A falsy item (None, {}).
NoItem == [kind |-> "NoItem"]

\* _is_cache_valid with current_time <= expires_at.
_is_cache_valid_inclusive(item, clock) ==
    IF item = NoItem THEN FALSE ELSE clock <= item.expires_at

\* _is_cache_valid(item)
_is_cache_valid(item, clock) ==
    IF item = NoItem THEN FALSE ELSE clock < item.expires_at

CacheItem(cache_key, weather_data, expires_at) ==
    [PK |-> cache_key, SK |-> "DATA", city |-> weather_data.city,
     expires_at |-> expires_at]

\* What one invocation of a function does: its result and the table after it.
Did(out, table) == [out |-> out, table |-> table]

\* get_weather._get_weather_with_retry; fault is what table.get_item raises
\* (NoException: it answers).
cache_get_weather_with_retry(city, table, clock, fault) ==
    LET cache_key == _generate_cache_key(city)
        response == get_item(table, cache_key)
    IN  IF fault # NoException THEN Did(Raised(fault), table)
        ELSE IF response # {}
        THEN LET item == CHOOSE i \in response : TRUE
             IN  IF _is_cache_valid(item, clock)
                 THEN Did(Returned(WeatherResponse(item.city)), table)
                 ELSE Did(Returned(None), table)
        ELSE Did(Returned(None), table)

\* set_weather._set_weather_with_retry
cache_set_weather_with_retry(weather_data, table, clock, fault) ==
    LET cache_key == _generate_cache_key(weather_data.city)
        expires_at == _generate_expires_at(clock)
    IN  IF fault # NoException THEN Did(Raised(fault), table)
        ELSE Did(Returned(PyBool(TRUE)),
                 put_item(table, CacheItem(cache_key, weather_data, expires_at)))

\* The Keys of the request batch_get_weather sends: those of cities[:100].
batch_get_request(cities) ==
    LET first == Take(cities, BATCH_GET_LIMIT)
    IN  [j \in 1..Len(first) |->
            [PK |-> _generate_cache_key(first[j]), SK |-> "DATA"]]

\* The items with an expires_at computed for each record, the clock having
\* advanced between two of them.
batch_write_request_per_record(weather_data_list, expires_at) ==
    LET first == Take(weather_data_list, BATCH_WRITE_LIMIT)
    IN  [j \in 1..Len(first) |->
            CacheItem(_generate_cache_key(first[j].city), first[j],
                      expires_at + j - 1)]

\* The items of the request batch_set_weather sends: those of
\* weather_data_list[:25].
batch_write_request(weather_data_list, expires_at) ==
    LET first == Take(weather_data_list, BATCH_WRITE_LIMIT)
    IN  [j \in 1..Len(first) |->
            CacheItem(_generate_cache_key(first[j].city), first[j], expires_at)]

\* The partition keys of a batch request.
PKs(request) == [j \in 1..Len(request) |-> request[j].PK]

\* batch_get_weather._batch_get_weather_with_retry
cache_batch_get_weather_with_retry(cities, table, clock, fault) ==
    LET cache_keys == batch_get_request(cities)
        responses == batch_get_item(table, cache_keys)
        cached_weather == {WeatherResponse(item.city) :
                              item \in {i \in responses : _is_cache_valid(i, clock)}}
    IN  IF fault # NoException THEN Did(Raised(fault), table)
        ELSE Did(Returned(PyDict(cached_weather)), table)

\* batch_set_weather._batch_set_weather_with_retry
cache_batch_set_weather_with_retry(weather_data_list, table, clock, fault) ==
    LET expires_at == _generate_expires_at(clock)
        batch_items == batch_write_request(weather_data_list, expires_at)
    IN  IF fault # NoException THEN Did(Raised(fault), table)
        ELSE Did(Returned(PyInt(Len(batch_items))),
                 batch_write_item(table, batch_items))

\* health_check._health_check_with_retry
cache_health_check_with_retry(table, fault) ==
    IF fault # NoException THEN Did(Raised(fault), table)
    ELSE Did(Returned(PyBool(TRUE)), table)

CacheOps ==
    {"cache.get_weather", "cache.set_weather", "cache.batch_get_weather",
     "cache.batch_set_weather", "cache.health_check"}

\* What each operation returns from its except (ClientError, CacheError) clause.
EmptyResult(fn) ==
    CASE fn = "cache.get_weather" -> None
      [] fn = "cache.set_weather" -> PyBool(FALSE)
      [] fn = "cache.batch_get_weather" -> PyDict({})
      [] fn = "cache.batch_set_weather" -> PyInt(0)
      [] OTHER -> PyBool(FALSE)

\* try: return _..._with_retry() except (ClientError, CacheError): return the
\* empty result.  f is the wrapper's frame when it has ended.
cache_try_except(fn, f) ==
    IF f.status = "returned" THEN Returned(f.value)
    ELSE IF isinstance(f.exc, {"ClientError", "CacheError"})
         THEN Returned(EmptyResult(fn))
    ELSE Raised(f.exc)

(***************************************************************************)
(* external_api.py: class OpenWeatherMapClient.                            *)
(***************************************************************************)
api_retry_config ==
    RetryConfig(API_MAX_ATTEMPTS, API_BASE_DELAY, API_BACKOFF_MULTIPLIER,
                API_MAX_DELAY, API_JITTER, API_JITTER_RANGE)

OpenWeatherMapResponse(name) == [kind |-> "OpenWeatherMapResponse", name |-> name]

\* class WeatherAPIError(message, status_code); status_code 0 is None.
WeatherAPIError(status_code, n) == Exc("WeatherAPIError", status_code, "", n)

\* What one HTTP exchange does: the session raises exc, or (NoException) the
\* provider answers with a status and, with 200, a display name.
HttpEvent(exc, status, name) == [exc |-> exc, status |-> status, name |-> name]

\* The test `if not city` alone.
SendsRequest_unless_empty(city) == city # <<>>

\* Whether an invocation of _get_weather_with_retry sends an HTTP request.
SendsRequest(city) == ~(city = <<>> \/ strip(city) = <<>>)

\* get_weather._get_weather_with_retry, the n-th invocation.
api_get_weather_with_retry(city, event, n) ==
    IF ~SendsRequest(city) THEN Raised(WeatherAPIError(0, n))
    ELSE IF event.exc # NoException THEN Raised(event.exc)
    ELSE IF event.status = 200 THEN Returned(OpenWeatherMapResponse(event.name))
    ELSE IF event.status = 404 THEN Raised(WeatherAPIError(404, n))
    ELSE IF event.status = 401 THEN Raised(WeatherAPIError(401, n))
    ELSE IF 500 <= event.status /\ event.status < 600
         THEN Raised(Exc("ClientResponseError", event.status, "", n))
    ELSE Raised(WeatherAPIError(event.status, n))

(***************************************************************************)
(* weather_service.py: class WeatherService.                               *)
(***************************************************************************)
\* _convert_to_weather_response(api_response)
_convert_to_weather_response(api_response) == WeatherResponse(api_response.name)

\* An activation: the function, its argument, where it stands and its local.
Act(fn, arg, at, local) == [fn |-> fn, arg |-> arg, at |-> at, local |-> local]

SvcArgs(city, cache_service) ==
    [kind |-> "args", city |-> city, cache_service |-> cache_service]

Top(s) == s[Len(s)]
Pop(s) == SubSeq(s, 1, Len(s) - 1)

\* The control state a step of a coroutine leaves: the stack, the wrapper
\* frame of a function it called, and what it returned or raised.
Control(s, f, r) == [stack |-> s, rt |-> f, ret |-> r]

Pending == [ok |-> FALSE, value |-> None, exc |-> NoException]

\* Every exception raised again as it is.
get_weather_except_reraise(e) == Raised(e)

\* except WeatherAPIError: raise / except Exception as e: raise
\* WeatherAPIError(f"Service error for {city}") from e
get_weather_except(e) ==
    IF isinstance(e, {"WeatherAPIError"}) THEN Raised(e)
    ELSE Raised(WeatherAPIError(0, 0))

\* WeatherService.get_weather is entered.
get_weather_enter(city, cache_service) ==
    IF cache_service
    THEN Control(<<Act("WeatherService.get_weather", SvcArgs(city, cache_service),
                      "cache_get", None),
                   Act("cache.get_weather", PyStr(city), "", None)>>,
                 dynamodb_retry(dynamodb_retry_config), Pending)
    ELSE Control(<<Act("WeatherService.get_weather", SvcArgs(city, cache_service),
                      "api_get", None),
                   Act("api.get_weather", PyStr(city), "", None)>>,
                 api_retry(api_retry_config), Pending)

\* get_weather that writes the record of a cache hit back to the cache.
get_weather_resume_recache(act, r) ==
    IF ~r.ok THEN Control(<<>>, NoFrame, get_weather_except(r.exc))
    ELSE IF act.at = "cache_get"
    THEN IF r.value # None
         THEN Control(<<[act EXCEPT !.at = "cache_set", !.local = r.value],
                        Act("cache.set_weather", r.value, "", None)>>,
                      dynamodb_retry(dynamodb_retry_config), Pending)
         ELSE Control(<<[act EXCEPT !.at = "api_get"],
                        Act("api.get_weather", PyStr(act.arg.city), "", None)>>,
                      api_retry(api_retry_config), Pending)
    ELSE IF act.at = "api_get"
    THEN LET response == _convert_to_weather_response(r.value)
         IN  IF act.arg.cache_service
             THEN Control(<<[act EXCEPT !.at = "cache_set", !.local = response],
                            Act("cache.set_weather", response, "", None)>>,
                          dynamodb_retry(dynamodb_retry_config), Pending)
             ELSE Control(<<>>, NoFrame, Returned(response))
    ELSE Control(<<>>, NoFrame, Returned(act.local))

\* WeatherService.get_weather goes on after the await at act.at gave r.
get_weather_resume(act, r) ==
    IF ~r.ok THEN Control(<<>>, NoFrame, get_weather_except(r.exc))
    ELSE IF act.at = "cache_get"
    THEN IF r.value # None
         THEN Control(<<>>, NoFrame, Returned(r.value))
         ELSE Control(<<[act EXCEPT !.at = "api_get"],
                        Act("api.get_weather", PyStr(act.arg.city), "", None)>>,
                      api_retry(api_retry_config), Pending)
    ELSE IF act.at = "api_get"
    THEN LET response == _convert_to_weather_response(r.value)
         IN  IF act.arg.cache_service
             THEN Control(<<[act EXCEPT !.at = "cache_set", !.local = response],
                            Act("cache.set_weather", response, "", None)>>,
                          dynamodb_retry(dynamodb_retry_config), Pending)
             ELSE Control(<<>>, NoFrame, Returned(response))
    ELSE Control(<<>>, NoFrame, Returned(act.local))

(***************************************************************************)
(* external_api.py: OpenWeatherMapClient.get_batch_weather.                *)
(***************************************************************************)
\* A dict as the set of its items; a key occurs once.
PyMap(entries) == [kind |-> "map", entries |-> entries]
Entry(key, value) == [key |-> key, value |-> value]
Keys(map) == {e.key : e \in map.entries}
Lookup(map, key) == (CHOOSE e \in map.entries : e.key = key).value

\* weather_data with a record for every city: a city whose task failed gets
\* a record under its own name.
weather_data_with_failures(cities, results) ==
    {Entry(cities[i], IF results[i].ok THEN results[i].value
                      ELSE OpenWeatherMapResponse(cities[i])) : i \in
        {i \in 1..Len(cities) :
            ~\E j \in (i + 1)..Len(cities) : cities[j] = cities[i]}}

\* for city, result in zip(cities, results): if isinstance(result,
\* OpenWeatherMapResponse): weather_data[city] = result.  A later result of
\* the same city replaces an earlier one.
weather_data(cities, results) ==
    {Entry(cities[i], results[i].value) : i \in
        {i \in 1..Len(cities) :
            /\ results[i].ok
            /\ ~\E j \in (i + 1)..Len(cities) :
                   cities[j] = cities[i] /\ results[j].ok}}

\* OpenWeatherMapClient.get_batch_weather is entered, called by the
\* activations `below`.  asyncio.gather runs one get_weather task per city;
\* the tasks share no state, so they are run one after the other, in the
\* order of the list.
api_get_batch_weather_enter(below, cities) ==
    IF cities = <<>> THEN Control(below, NoFrame, Returned(PyMap({})))
    ELSE Control(below \o <<Act("api.get_batch_weather", PyList(cities), "gather",
                                PyList(<<>>)),
                            Act("api.get_weather", PyStr(cities[1]), "", None)>>,
                 api_retry(api_retry_config), Pending)

\* The gather without return_exceptions: the first exception of a task is
\* raised to the caller.
api_get_batch_weather_resume_raising(below, act, r) ==
    LET cities == act.arg.items
        results == Append(act.local.items, r)
    IN  IF ~r.ok THEN Control(below, NoFrame, Raised(r.exc))
        ELSE IF Len(results) < Len(cities)
        THEN Control(below \o <<[act EXCEPT !.local = PyList(results)],
                                Act("api.get_weather",
                                    PyStr(cities[Len(results) + 1]), "", None)>>,
                     api_retry(api_retry_config), Pending)
        ELSE Control(below, NoFrame,
                     Returned(PyMap(weather_data(cities, results))))

\* A task of the gather has ended with r (return_exceptions=True: what it
\* raised is its result).
api_get_batch_weather_resume(below, act, r) ==
    LET cities == act.arg.items
        results == Append(act.local.items, r)
    IN  IF Len(results) < Len(cities)
        THEN Control(below \o <<[act EXCEPT !.local = PyList(results)],
                                Act("api.get_weather",
                                    PyStr(cities[Len(results) + 1]), "", None)>>,
                     api_retry(api_retry_config), Pending)
        ELSE Control(below, NoFrame,
                     Returned(PyMap(weather_data(cities, results))))

(***************************************************************************)
(* weather_service.py: WeatherService.get_batch_weather.                   *)
(***************************************************************************)
\* WeatherAPIError(message), no status code.
WeatherAPIErrorOf(message) == Exc("WeatherAPIError", 0, message, 0)

BatchWeatherResponse(results, total_cities, successful_requests) ==
    [kind |-> "BatchWeatherResponse", results |-> results,
     total_cities |-> total_cities, successful_requests |-> successful_requests]

\* Duplicates removed keeping the last occurrence of each city.
RECURSIVE dict_fromkeys_keep_last(_)
dict_fromkeys_keep_last(cities) ==
    IF cities = <<>> THEN <<>>
    ELSE LET back == dict_fromkeys_keep_last(SubSeq(cities, 2, Len(cities)))
             first == cities[1]
         IN  IF \E i \in 1..Len(back) : back[i] = first THEN back
             ELSE <<first>> \o back

\* De-duplication by cache key: a city is dropped when an earlier one has its
\* key.
RECURSIVE dict_fromkeys_by_cache_key(_)
dict_fromkeys_by_cache_key(cities) ==
    IF cities = <<>> THEN <<>>
    ELSE LET front == dict_fromkeys_by_cache_key(SubSeq(cities, 1, Len(cities) - 1))
             last == cities[Len(cities)]
         IN  IF \E i \in 1..Len(front) :
                    _generate_cache_key(front[i]) = _generate_cache_key(last)
             THEN front
             ELSE Append(front, last)

\* list(dict.fromkeys(cities))
RECURSIVE dict_fromkeys(_)
dict_fromkeys(cities) ==
    IF cities = <<>> THEN <<>>
    ELSE LET front == dict_fromkeys(SubSeq(cities, 1, Len(cities) - 1))
             last == cities[Len(cities)]
         IN  IF \E i \in 1..Len(front) : front[i] = last THEN front
             ELSE Append(front, last)

BatchArgs(cities, max_cities, cache_service) ==
    [kind |-> "args", cities |-> cities, max_cities |-> max_cities,
     cache_service |-> cache_service]

BatchLocals(unique_cities, cached_results, cities_to_fetch, api_results) ==
    [kind |-> "locals", unique_cities |-> unique_cities,
     cached_results |-> cached_results, cities_to_fetch |-> cities_to_fetch,
     api_results |-> api_results]

\* cached_results is batch_get_weather's dict, keyed by the city of each item.
InCached(city, cached_results) == \E w \in cached_results.values : w.city = city
Cached(city, cached_results) == CHOOSE w \in cached_results.values : w.city = city

\* api_results as the list of its items, in insertion order.
InApiResults(city, api_results) ==
    \E i \in 1..Len(api_results) : api_results[i].key = city
ApiResult(city, api_results) ==
    api_results[CHOOSE i \in 1..Len(api_results) : api_results[i].key = city]
        .value
Values(api_results) == [i \in 1..Len(api_results) |-> api_results[i].value]

\* The combination with total_cities counting the results.
get_batch_weather_combine_counts_results(local) ==
    LET Found(city) == InCached(city, local.cached_results)
                          \/ InApiResults(city, local.api_results)
        found == SelectSeq(local.unique_cities, Found)
        results == [i \in 1..Len(found) |->
                       IF InCached(found[i], local.cached_results)
                       THEN Cached(found[i], local.cached_results)
                       ELSE ApiResult(found[i], local.api_results)]
    IN  Control(<<>>, NoFrame,
                Returned(BatchWeatherResponse(results, Len(results), Len(results))))

\* Combine cached and fresh results; return BatchWeatherResponse.
get_batch_weather_combine(local) ==
    LET Found(city) == InCached(city, local.cached_results)
                          \/ InApiResults(city, local.api_results)
        found == SelectSeq(local.unique_cities, Found)
        results == [i \in 1..Len(found) |->
                       IF InCached(found[i], local.cached_results)
                       THEN Cached(found[i], local.cached_results)
                       ELSE ApiResult(found[i], local.api_results)]
    IN  Control(<<>>, NoFrame,
                Returned(BatchWeatherResponse(results, Len(local.unique_cities),
                                              Len(results))))

\* Fetch remaining cities from API, if any.
get_batch_weather_fetch(act) ==
    IF act.local.cities_to_fetch # <<>>
    THEN api_get_batch_weather_enter(<<[act EXCEPT !.at = "api_get"]>>,
                                     act.local.cities_to_fetch)
    ELSE get_batch_weather_combine(act.local)

\* The entry with the length test made on the de-duplicated list.
get_batch_weather_enter_unique_length(cities, max_cities, cache_service) ==
    IF cities = <<>>
    THEN Control(<<>>, NoFrame,
                 Raised(WeatherAPIErrorOf("Cities list cannot be empty")))
    ELSE IF Len(dict_fromkeys(cities)) > max_cities
    THEN Control(<<>>, NoFrame,
                 Raised(WeatherAPIErrorOf("Maximum cities allowed per batch request")))
    ELSE LET unique_cities == dict_fromkeys(cities)
             act == Act("WeatherService.get_batch_weather",
                        BatchArgs(cities, max_cities, cache_service), "cache_get",
                        BatchLocals(unique_cities, PyDict({}), unique_cities, <<>>))
         IN  IF cache_service
             THEN Control(<<act, Act("cache.batch_get_weather",
                                     PyList(unique_cities), "", None)>>,
                          dynamodb_retry(dynamodb_retry_config), Pending)
             ELSE get_batch_weather_fetch(act)

\* WeatherService.get_batch_weather is entered.
get_batch_weather_enter(cities, max_cities, cache_service) ==
    IF cities = <<>>
    THEN Control(<<>>, NoFrame,
                 Raised(WeatherAPIErrorOf("Cities list cannot be empty")))
    ELSE IF Len(cities) > max_cities
    THEN Control(<<>>, NoFrame,
                 Raised(WeatherAPIErrorOf("Maximum cities allowed per batch request")))
    ELSE LET unique_cities == dict_fromkeys(cities)
             act == Act("WeatherService.get_batch_weather",
                        BatchArgs(cities, max_cities, cache_service), "cache_get",
                        BatchLocals(unique_cities, PyDict({}), unique_cities, <<>>))
         IN  IF cache_service
             THEN Control(<<act, Act("cache.batch_get_weather",
                                     PyList(unique_cities), "", None)>>,
                          dynamodb_retry(dynamodb_retry_config), Pending)
             ELSE get_batch_weather_fetch(act)

\* WeatherService.get_batch_weather goes on after the await at act.at gave r;
\* except Exception as e: raise WeatherAPIError("Batch service error") from e
get_batch_weather_resume(act, r) ==
    IF ~r.ok
    THEN Control(<<>>, NoFrame, Raised(WeatherAPIErrorOf("Batch service error")))
    ELSE IF act.at = "cache_get"
    THEN LET NotCached(city) == ~InCached(city, r.value)
             cities_to_fetch == SelectSeq(act.local.unique_cities, NotCached)
         IN  get_batch_weather_fetch(
                 [act EXCEPT !.local.cached_results = r.value,
                             !.local.cities_to_fetch = cities_to_fetch])
    ELSE IF act.at = "api_get"
    THEN LET Fetched(city) == city \in Keys(r.value)
             fetched == SelectSeq(act.local.cities_to_fetch, Fetched)
             api_results == [i \in 1..Len(fetched) |->
                                Entry(fetched[i],
                                      _convert_to_weather_response(
                                          Lookup(r.value, fetched[i])))]
             local == [act.local EXCEPT !.api_results = api_results]
         IN  IF act.arg.cache_service /\ api_results # <<>>
             THEN Control(<<[act EXCEPT !.at = "cache_set", !.local = local],
                            Act("cache.batch_set_weather",
                                PyList(Values(api_results)), "", None)>>,
                          dynamodb_retry(dynamodb_retry_config), Pending)
             ELSE get_batch_weather_combine(local)
    ELSE get_batch_weather_combine(act.local)

(***************************************************************************)
(* lambda_function.py: the status of the response each endpoint gives for  *)
(* what the service returned or raised.                                    *)
(***************************************************************************)
\* GET /weather/{city}: the try/except around service.get_weather(city).
get_weather_endpoint(r) ==
    IF r.ok THEN 200
    ELSE IF isinstance(r.exc, {"WeatherAPIError"})
    THEN IF r.exc.status = 404 THEN 404
         ELSE IF r.exc.status = 401 THEN 401
         ELSE 503
    ELSE 500

\* POST /weather/batch: the try/except around service.get_batch_weather.
get_batch_weather_endpoint(r) ==
    IF r.ok THEN 200
    ELSE IF isinstance(r.exc, {"WeatherAPIError"}) THEN 400
    ELSE 500

(***************************************************************************)
(* The health checks: OpenWeatherMapClient.health_check and                *)
(* WeatherService.health_check.                                            *)
(***************************************************************************)
\* The known city of the probe, "London".
London == <<"A", "b">>

\* OpenWeatherMapClient.health_check is entered, called by the activations
\* `below`: await self.get_weather("London").
api_health_check_enter(below) ==
    Control(below \o <<Act("api.health_check", None, "probe", None),
                       Act("api.get_weather", PyStr(London), "", None)>>,
            api_retry(api_retry_config), Pending)

\* OpenWeatherMapClient.health_check goes on after the probe gave r: return
\* True / except WeatherAPIError: return False / except (aiohttp.ClientError,
\* asyncio.TimeoutError): return False.
api_health_check_resume(below, r) ==
    IF r.ok THEN Control(below, NoFrame, Returned(PyBool(TRUE)))
    ELSE IF isinstance(r.exc, {"WeatherAPIError"})
    THEN Control(below, NoFrame, Returned(PyBool(FALSE)))
    ELSE IF isinstance(r.exc, {"aiohttp.ClientError", "asyncio.TimeoutError"})
    THEN Control(below, NoFrame, Returned(PyBool(FALSE)))
    ELSE Control(below, NoFrame, Raised(r.exc))

\* "healthy" if ... else "unhealthy"
Healthy(b) == IF b THEN "healthy" ELSE "unhealthy"

\* The dict WeatherService.health_check returns; a key that is not in the
\* dict has the value "".
HealthStatus(status, openweathermap_api, cache, error) ==
    [kind |-> "HealthStatus", status |-> status,
     openweathermap_api |-> openweathermap_api, cache |-> cache, error |-> error]

\* WeatherService.health_check is entered.
health_check_enter ==
    api_health_check_enter(<<Act("WeatherService.health_check", None, "api", None)>>)

\* WeatherService.health_check goes on after api_client.health_check() gave r.
health_check_resume(r) ==
    IF r.ok
    THEN LET api_healthy == r.value.b
             cache_healthy == TRUE
             overall_healthy == api_healthy /\ cache_healthy
         IN  Control(<<>>, NoFrame,
                     Returned(HealthStatus(Healthy(overall_healthy),
                                           Healthy(api_healthy),
                                           Healthy(cache_healthy), FALSE)))
    ELSE IF isinstance(r.exc, {"WeatherAPIError", "ValueError"})
    THEN Control(<<>>, NoFrame, Returned(HealthStatus("unhealthy", "", "", TRUE)))
    ELSE Control(<<>>, NoFrame, Raised(r.exc))

(***************************************************************************)
(* The environment: what the store and the provider do to one call.        *)
(***************************************************************************)
StoreErrors(n) ==
    {Exc("ClientError", 0, "ThrottlingException", n),
     Exc("ClientError", 0, "AccessDenied", n),
     Exc("EndpointConnectionError", 0, "", n)}

StoreEvents(n) == {NoException} \cup StoreErrors(n)

\* The error codes of a botocore ClientError: those should_retry_exception
\* names, DynamoDB's own not-found code, a condition that failed, and "500".
ErrorCodes ==
    retryable_codes \cup non_retryable_codes
    \cup {"ResourceNotFoundException", "ConditionalCheckFailedException", "500"}

\* What describe_table does to a call of the health check: any of the codes.
DescribeTableEvents(n) ==
    StoreEvents(n) \cup {Exc("ClientError", 0, code, n) : code \in ErrorCodes}

HttpEvents(n) ==
    {HttpEvent(NoException, 200, name) : name \in ProviderNames}
    \cup {HttpEvent(NoException, status, <<>>) : status \in {404, 401, 429, 500}}
    \cup {HttpEvent(Exc("ClientConnectionError", 0, "", n), 0, <<>>),
          HttpEvent(Exc("asyncio.TimeoutError", 0, "", n), 0, <<>>)}

(***************************************************************************)
(* A decorated operation called directly, as the tests of                  *)
(* test_retry_functionality.py do: any configuration, any decorator, each  *)
(* invocation returning or raising one of TestExceptions.                  *)
(***************************************************************************)
BaseDelays == {500, 1000}
Multipliers == {1, 2}
MaxDelays == {5000, 30000}
JitterRanges == {10, 150}

RetryConfigs ==
    {RetryConfig(m, b, k, d, j, r) :
        m \in (0 - 1)..MaxAttempts, b \in BaseDelays, k \in Multipliers,
        d \in MaxDelays, j \in {TRUE}, r \in JitterRanges}
    \cup
    {RetryConfig(m, b, k, d, FALSE, 10) :
        m \in (0 - 1)..MaxAttempts, b \in BaseDelays, k \in Multipliers,
        d \in MaxDelays}

Decorators ==
    {"api_retry", "dynamodb_retry", "dynamodb_retry_async", "retry_sync",
     "retry_async"}

Decorate(decorator, config) ==
    CASE decorator = "api_retry" -> api_retry(config)
      [] decorator = "dynamodb_retry" -> dynamodb_retry(config)
      [] decorator = "dynamodb_retry_async" -> dynamodb_retry_async(config)
      [] decorator = "retry_sync" -> retry_sync(config, {"Exception"})
      [] OTHER -> retry_async(config, {"Exception"})

TestExceptions(n) ==
    {Exc("ValueError", 0, "", n),
     Exc("ClientConnectionError", 0, "", n),
     Exc("ClientResponseError", 500, "", n),
     Exc("ClientResponseError", 404, "", n),
     Exc("ClientResponseError", 399, "", n),
     Exc("ClientResponseError", 499, "", n),
     Exc("ClientError", 0, "ThrottlingException", n),
     Exc("ClientError", 0, "ValidationException", n),
     Exc("ClientError", 0, "ConditionalCheckFailedException", n)}

TestOutcomes(n) == {Returned(PyInt(n))} \cup {Raised(e) : e \in TestExceptions(n)}

(***************************************************************************)
(* The state machine.                                                      *)
(***************************************************************************)
\* What the n-th invocation of the function of activation act may meet.
Events(act, n) ==
    CASE act.fn = "decorated" -> TestOutcomes(n)
      [] act.fn = "api.get_weather" -> HttpEvents(n)
      [] act.fn = "cache.health_check" -> DescribeTableEvents(n)
      [] OTHER -> StoreEvents(n)

\* The n-th invocation of the function the wrapper decorates.
Invoke(act, table, clock, event, n) ==
    CASE act.fn = "decorated" -> Did(event, table)
      [] act.fn = "api.get_weather" ->
            Did(api_get_weather_with_retry(act.arg.s, event, n), table)
      [] act.fn = "cache.get_weather" ->
            cache_get_weather_with_retry(act.arg.s, table, clock, event)
      [] act.fn = "cache.set_weather" ->
            cache_set_weather_with_retry(act.arg, table, clock, event)
      [] act.fn = "cache.batch_get_weather" ->
            cache_batch_get_weather_with_retry(act.arg.items, table, clock, event)
      [] act.fn = "cache.batch_set_weather" ->
            cache_batch_set_weather_with_retry(act.arg.items, table, clock, event)
      [] OTHER -> cache_health_check_with_retry(table, event)

\* What a function that ran inside a wrapper gives its caller when the
\* wrapper has ended: the cache operations catch, api.get_weather does not.
Unwrap(fn, f) ==
    IF fn \in CacheOps THEN cache_try_except(fn, f)
    ELSE IF f.status = "returned" THEN Returned(f.value)
    ELSE Raised(f.exc)

NoStats ==
    [op |-> "none", arg |-> None, http |-> 0, api |-> "none", record |-> None,
     cache_read |-> "none", gave_up |-> FALSE, primed |-> None, fresh |-> FALSE,
     touched |-> FALSE, outcomes |-> <<>>, cached |-> None, escaped |-> FALSE,
     sent |-> <<>>, hit |-> None, entry |-> {}, before |-> {}]

NewStats(op, arg, primed) == [NoStats EXCEPT !.op = op, !.arg = arg, !.primed = primed]

Primed(city, expires_at) ==
    [kind |-> "primed", city |-> city, expires_at |-> expires_at]

\* The event loop with no task; finished lists the tasks of a gather in the
\* order they ended, writes the items of the writes the store accepted, in the
\* order they completed.
NoLoop == [tasks |-> <<>>, running |-> 0, finished |-> <<>>, writes |-> <<>>]

Init ==
    /\ store = {}
    /\ now = 0
    /\ stack = <<>>
    /\ rt = NoFrame
    /\ ret = Pending
    /\ stats = NoStats
    /\ populated = None
    /\ loop = NoLoop

Idle == stack = <<>> /\ rt.status = "none" /\ stats.op = "none"

\* A top-level operation has ended; ret is its result.
Done == stack = <<>> /\ stats.op \notin {"none", "decorated"}

\* A top-level call of a cache operation.
Enter(fn, arg) ==
    /\ Idle
    /\ stack' = <<Act(fn, arg, "", None)>>
    /\ rt' = dynamodb_retry(dynamodb_retry_config)
    /\ ret' = Pending
    /\ stats' = NewStats(fn, arg, None)
    /\ UNCHANGED <<loop, store, now, populated>>

\* A top-level call that returns before any wrapper is entered.
ReturnAtOnce(fn, arg, value) ==
    /\ Idle
    /\ ret' = Returned(value)
    /\ stats' = NewStats(fn, arg, None)
    /\ UNCHANGED <<loop, store, now, stack, rt, populated>>

\* The caller has taken the result of the operation that ended.
Finish ==
    /\ Done
    /\ ret' = Pending
    /\ stats' = NoStats
    /\ UNCHANGED <<loop, store, now, stack, rt, populated>>

Lists(S, n) == UNION {[1..k -> S] : k \in 0..n}

\* The cities of the records the cache is given directly.
RecordCities == Cities

CallCacheGet == \E city \in Cities : Enter("cache.get_weather", PyStr(city))

CallCacheSet ==
    \E city \in RecordCities : Enter("cache.set_weather", WeatherResponse(city))

CallCacheBatchGet ==
    \E cities \in Lists(Cities, MaxBatch) :
        IF cities = <<>>
        THEN ReturnAtOnce("cache.batch_get_weather", PyList(cities), PyDict({}))
        ELSE Enter("cache.batch_get_weather", PyList(cities))

CallCacheBatchSet ==
    \E list \in Lists({WeatherResponse(c) : c \in RecordCities}, MaxBatch) :
        IF list = <<>>
        THEN ReturnAtOnce("cache.batch_set_weather", PyList(list), PyInt(0))
        ELSE Enter("cache.batch_set_weather", PyList(list))

CallCacheHealthCheck == Enter("cache.health_check", None)

\* Lists around the two limits of the batch operations, of cities that differ
\* in length: the j-th is j letters long.
LongCity(j) == [i \in 1..j |-> "a"]
LongList(k) == [j \in 1..k |-> LongCity(j)]
Around(limit) == (limit - 1)..(limit + MaxExcess)

CallCacheBatchGetLong ==
    \E k \in Around(BATCH_GET_LIMIT) :
        Enter("cache.batch_get_weather", PyList(LongList(k)))

CallCacheBatchSetLong ==
    \E k \in Around(BATCH_WRITE_LIMIT) :
        Enter("cache.batch_set_weather",
              PyList([j \in 1..k |-> WeatherResponse(LongCity(j))]))

\* The empty and a whitespace-only city name.
BlankCities == {<<>>, <<" ">>}

\* GET /weather/{city}: WeatherService(api_key).get_weather(city); the service
\* has no cache_service when the table name is not configured.
CallGetWeather ==
    /\ Idle
    /\ \E city \in Cities \cup BlankCities, cache_service \in BOOLEAN :
          LET c == get_weather_enter(city, cache_service)
          IN  /\ stack' = c.stack
              /\ rt' = c.rt
              /\ ret' = c.ret
              /\ stats' = NewStats("WeatherService.get_weather", PyStr(city),
                                   IF populated # None /\ populated.city = city
                                   THEN populated ELSE None)
    /\ UNCHANGED <<loop, store, now, populated>>

\* The cities of a batch request: a spelling the provider answers with as it
\* is, and two that differ from the provider's name.
BatchCities == {<<"B">>, <<"a", "b">>}

\* POST /weather/batch: WeatherService(api_key).get_batch_weather(cities,
\* MAX_BATCH_CITIES).
CallGetBatchWeather ==
    /\ Idle
    /\ \E cities \in Lists(BatchCities, MAX_BATCH_CITIES + 1),
          max_cities \in {MAX_BATCH_CITIES}, cache_service \in BOOLEAN :
          LET c == get_batch_weather_enter(cities, max_cities, cache_service)
          IN  /\ stack' = c.stack
              /\ rt' = c.rt
              /\ ret' = c.ret
              /\ stats' = NewStats("WeatherService.get_batch_weather",
                                   BatchArgs(cities, max_cities, cache_service),
                                   None)
    /\ UNCHANGED <<loop, store, now, populated>>

\* Two spellings of one city: they differ as strings and share a cache key.
Spellings == {<<"a", "b">>, <<"A", "b">>}

\* A request to either endpoint for spellings of one city, the service having
\* its cache: GET /weather/{city} or POST /weather/batch.  stats.before keeps
\* the table as the request found it.
CallEndpoint ==
    /\ Idle
    /\ \/ \E city \in Spellings :
             LET c == get_weather_enter(city, TRUE)
             IN  /\ stack' = c.stack
                 /\ rt' = c.rt
                 /\ ret' = c.ret
                 /\ stats' = [NewStats("WeatherService.get_weather",
                                       SvcArgs(city, TRUE), None)
                                 EXCEPT !.before = store]
       \/ \E cities \in Lists(Spellings, Cardinality(Spellings)) :
             LET c == get_batch_weather_enter(cities, MAX_BATCH_CITIES, TRUE)
             IN  /\ stack' = c.stack
                 /\ rt' = c.rt
                 /\ ret' = c.ret
                 /\ stats' = [NewStats("WeatherService.get_batch_weather",
                                       BatchArgs(cities, MAX_BATCH_CITIES, TRUE),
                                       None)
                                 EXCEPT !.before = store]
    /\ UNCHANGED <<loop, store, now, populated>>

\* A decorated function is called.
CallDecorated ==
    /\ Idle
    /\ \E d \in Decorators, c \in RetryConfigs :
          /\ rt' = Decorate(d, c)
          /\ stack' = <<Act("decorated", PyStr(<<d>>), "", None)>>
          /\ stats' = NewStats("decorated", PyStr(<<d>>), None)
    /\ UNCHANGED <<loop, store, now, ret, populated>>

\* The wrapper invokes the function once more and handles what it did.
Attempt ==
    /\ stack # <<>>
    /\ rt.status = "running"
    /\ \E event \in Events(Top(stack), rt.calls + 1), u \in JitterDraws :
          LET act == Top(stack)
              did == Invoke(act, store, now, event, rt.calls + 1)
          IN  /\ rt' = Iteration(rt, did.out, u)
              /\ store' = did.table
              /\ stats' =
                    [stats EXCEPT
                        !.http = IF act.fn = "api.get_weather" /\ SendsRequest(act.arg.s)
                                 THEN @ + 1 ELSE @,
                        !.fresh = IF act.fn = "cache.get_weather" /\ did.out.ok
                                  THEN stats.primed # None
                                       /\ now < stats.primed.expires_at
                                  ELSE @,
                        !.touched = @ \/ act.fn \in CacheOps,
                        !.sent =
                            IF act.fn = "cache.batch_get_weather"
                            THEN PKs(batch_get_request(act.arg.items))
                            ELSE IF act.fn = "cache.batch_set_weather"
                            THEN PKs(batch_write_request(
                                         act.arg.items, _generate_expires_at(now)))
                            ELSE @]
              /\ populated' =
                    IF act.fn = "cache.set_weather" /\ did.out.ok /\ Len(stack) = 2
                    THEN Primed(stack[1].arg.city,
                                (CHOOSE i \in did.table :
                                    i.city = act.arg.city).expires_at)
                    ELSE IF did.table # store THEN None
                    ELSE populated
    /\ UNCHANGED <<loop, now, stack, ret>>

\* The sleep between two attempts ends.
Sleep ==
    /\ rt.status = "sleeping"
    /\ rt' = Woken(rt)
    /\ UNCHANGED <<loop, store, now, stack, ret, stats, populated>>

\* The wrapper has ended: the function that entered it returns to its caller.
Return ==
    /\ stack # <<>>
    /\ Top(stack).fn # "decorated"
    /\ rt.status \in {"returned", "raised"}
    /\ ret' = Unwrap(Top(stack).fn, rt)
    /\ stack' = Pop(stack)
    /\ rt' = NoFrame
    /\ stats' =
          [stats EXCEPT
              !.gave_up = IF Top(stack).fn \in CacheOps
                          THEN @ \/ rt.status = "raised" ELSE @,
              !.cache_read = IF Top(stack).fn = "cache.get_weather"
                             THEN IF rt.status = "returned" THEN "ok" ELSE "failed"
                             ELSE @,
              !.api = IF Top(stack).fn = "api.get_weather"
                      THEN IF rt.status = "returned" THEN "ok" ELSE "failed"
                      ELSE @,
              !.record = IF Top(stack).fn = "api.get_weather"
                            /\ rt.status = "returned"
                         THEN _convert_to_weather_response(rt.value) ELSE @,
              !.outcomes = IF Top(stack).fn = "api.get_weather"
                           THEN Append(@, Entry(Top(stack).arg.s,
                                                Unwrap(Top(stack).fn, rt)))
                           ELSE @,
              !.cached = IF Top(stack).fn = "cache.batch_get_weather"
                            /\ Unwrap(Top(stack).fn, rt).ok
                         THEN Unwrap(Top(stack).fn, rt).value ELSE @,
              !.escaped = IF Top(stack).fn \in CacheOps
                          THEN @ \/ ~Unwrap(Top(stack).fn, rt).ok ELSE @,
              !.hit = IF Top(stack).fn = "cache.get_weather"
                      THEN Unwrap(Top(stack).fn, rt).value ELSE @,
              !.entry = IF Top(stack).fn = "cache.get_weather"
                        THEN get_item(store, _generate_cache_key(Top(stack).arg.s))
                        ELSE @]
    /\ UNCHANGED <<loop, store, now, populated>>

\* WeatherService.get_weather goes on with what the awaited call gave.
GetWeatherResume ==
    /\ stack # <<>>
    /\ Top(stack).fn = "WeatherService.get_weather"
    /\ rt.status = "none"
    /\ LET c == get_weather_resume(Top(stack), ret)
       IN  /\ stack' = c.stack
           /\ rt' = c.rt
           /\ ret' = c.ret
    /\ UNCHANGED <<loop, store, now, stats, populated>>

\* OpenWeatherMapClient.get_batch_weather goes on with what a task gave.
ApiBatchResume ==
    /\ stack # <<>>
    /\ Top(stack).fn = "api.get_batch_weather"
    /\ rt.status = "none"
    /\ LET c == api_get_batch_weather_resume(Pop(stack), Top(stack), ret)
       IN  /\ stack' = c.stack
           /\ rt' = c.rt
           /\ ret' = c.ret
    /\ UNCHANGED <<loop, store, now, stats, populated>>

\* WeatherService.get_batch_weather goes on with what the awaited call gave.
GetBatchWeatherResume ==
    /\ stack # <<>>
    /\ Top(stack).fn = "WeatherService.get_batch_weather"
    /\ rt.status = "none"
    /\ LET c == get_batch_weather_resume(Top(stack), ret)
       IN  /\ stack' = c.stack
           /\ rt' = c.rt
           /\ ret' = c.ret
    /\ UNCHANGED <<loop, store, now, stats, populated>>

\* OpenWeatherMapClient().health_check() called directly.
CallApiHealthCheck ==
    /\ Idle
    /\ LET c == api_health_check_enter(<<>>)
       IN  /\ stack' = c.stack
           /\ rt' = c.rt
           /\ ret' = c.ret
    /\ stats' = NewStats("api.health_check", None, None)
    /\ UNCHANGED <<loop, store, now, populated>>

\* GET /health: WeatherService(api_key).health_check()
CallHealthCheck ==
    /\ Idle
    /\ LET c == health_check_enter
       IN  /\ stack' = c.stack
           /\ rt' = c.rt
           /\ ret' = c.ret
    /\ stats' = NewStats("WeatherService.health_check", None, None)
    /\ UNCHANGED <<loop, store, now, populated>>

\* OpenWeatherMapClient.health_check goes on with what the probe gave.
ApiHealthResume ==
    /\ stack # <<>>
    /\ Top(stack).fn = "api.health_check"
    /\ rt.status = "none"
    /\ LET c == api_health_check_resume(Pop(stack), ret)
       IN  /\ stack' = c.stack
           /\ rt' = c.rt
           /\ ret' = c.ret
    /\ UNCHANGED <<loop, store, now, stats, populated>>

\* WeatherService.health_check goes on with what the client's check gave.
HealthCheckResume ==
    /\ stack # <<>>
    /\ Top(stack).fn = "WeatherService.health_check"
    /\ rt.status = "none"
    /\ LET c == health_check_resume(ret)
       IN  /\ stack' = c.stack
           /\ rt' = c.rt
           /\ ret' = c.ret
    /\ UNCHANGED <<loop, store, now, stats, populated>>

\* Time passes only while the request is suspended (in a call to the store or
\* the provider, or in a backoff sleep) or none is running.
Suspended == Idle \/ rt.status \in {"running", "sleeping"}

Tick ==
    /\ Suspended
    /\ now < MaxClock
    /\ now' = now + 1
    /\ UNCHANGED <<loop, store, stack, rt, ret, stats, populated>>

\* DynamoDB's time-to-live removes an item some time after its expires_at.
TtlExpire ==
    /\ Suspended
    /\ \E item \in store :
          /\ item.expires_at <= now
          /\ store' = store \ {item}
    /\ populated' = None
    /\ UNCHANGED <<loop, now, stack, rt, ret, stats>>

(***************************************************************************)
(* The event loop: uvicorn (local_dev.py) serves the requests of the app   *)
(* as tasks of one asyncio loop, and asyncio.gather runs one task per      *)
(* city.  One task at a time holds the loop's thread, from the moment it   *)
(* is resumed to its next await that suspends it; a call that does not     *)
(* await (a boto3 call, time.sleep) keeps the thread.                      *)
(***************************************************************************)
\* A task: the coroutine of a request (parent 0) or of one city of a gather
\* (parent: the task that gathers), its control state, what it waits for,
\* the dict its cache read gave, and whether a cache operation raised into it.
Task(parent, fn, arg, c, wait) ==
    [parent |-> parent, fn |-> fn, arg |-> arg, stack |-> c.stack, rt |-> c.rt,
     ret |-> c.ret, wait |-> wait, cached |-> None, escaped |-> FALSE]

Moved(task, c, wait) ==
    [task EXCEPT !.stack = c.stack, !.rt = c.rt, !.ret = c.ret, !.wait = wait]

Tasks == DOMAIN loop.tasks
Children(t) == {k \in Tasks : loop.tasks[k].parent = t}

\* The cities of the requests the loop serves.
LoopCities == {<<"B">>, <<"a", "b">>}
\* The lists of a batch request: get_batch_weather removes the duplicates
\* before it gathers, so the lists have none.
LoopBatches ==
    {cities \in Lists(LoopCities, Cardinality(LoopCities)) :
        /\ cities # <<>>
        /\ \A i, j \in 1..Len(cities) : cities[i] = cities[j] => i = j}

\* The draw of random.uniform in the loop: the length of a delay plays no
\* part in what the loop does, a timer being due at any time.
LoopJitterDraws == {0}

LoopRequests ==
    {[fn |-> "WeatherService.get_weather", arg |-> SvcArgs(city, TRUE)] :
        city \in LoopCities}
    \cup {[fn |-> "WeatherService.get_batch_weather",
           arg |-> BatchArgs(cities, MAX_BATCH_CITIES, TRUE)] :
             cities \in LoopBatches}

\* What the store and the provider do to a call of a task.
LoopStoreEvents(n) == {NoException, Exc("ClientError", 0, "ThrottlingException", n)}

LoopHttpEvents(n) ==
    {HttpEvent(NoException, 200, name) : name \in ProviderNames}
    \cup {HttpEvent(NoException, status, <<>>) : status \in {404, 500}}

\* The results of the gather awaited by task t, in the order the tasks ended.
gather_as_completed(l, t) ==
    LET ended == SelectSeq(l.finished, LAMBDA k : l.tasks[k].parent = t)
    IN  [i \in 1..Len(ended) |-> l.tasks[ended[i]].ret]

\* The results of the gather awaited by task t: what each task returned or
\* raised, in the order of the tasks given to gather.
gather(l, t) ==
    LET kids == {k \in DOMAIN l.tasks : l.tasks[k].parent = t}
        first == CHOOSE k \in kids : \A j \in kids : k <= j
    IN  [i \in 1..Cardinality(kids) |-> l.tasks[first + i - 1].ret]

\* The control state is that of api_get_batch_weather_enter: the tasks of the
\* gather are to be created.
Gathering(task) ==
    /\ Len(task.stack) >= 2
    /\ task.stack[Len(task.stack) - 1].fn = "api.get_batch_weather"

\* The items of the request a write of the cache sends to the store: the
\* Item of put_item, the PutRequests of batch_write_item; no item for a read.
Written(act, clock) ==
    CASE act.fn = "cache.set_weather" ->
            <<CacheItem(_generate_cache_key(act.arg.city), act.arg,
                        _generate_expires_at(clock))>>
      [] act.fn = "cache.batch_set_weather" ->
            batch_write_request(act.arg.items, _generate_expires_at(clock))
      [] OTHER -> <<>>

\* The loop's thread is free: a task that is ready, or whose response or
\* timer is due, can be resumed.
ThreadFree == loop.running = 0

\* A request arrives, one for each endpoint: the server creates its task.
LoopSubmit ==
    /\ ThreadFree
    /\ \E req \in LoopRequests :
          /\ \A t \in Tasks : loop.tasks[t].fn # req.fn
          /\ LET c == IF req.fn = "WeatherService.get_weather"
                      THEN get_weather_enter(req.arg.city, req.arg.cache_service)
                      ELSE get_batch_weather_enter(req.arg.cities,
                                                   req.arg.max_cities,
                                                   req.arg.cache_service)
             IN  loop' = [loop EXCEPT
                            !.tasks = Append(@, Task(0, req.fn, req.arg, c, "ready"))]
    /\ UNCHANGED <<store, now, stack, rt, ret, stats, populated>>

\* The spellings of one city, and the requests for it.
SameCity == {<<"a", "b">>, <<" ", "A", "B", " ">>}

\* GET /weather/{city} is requested twice for one city, the second request
\* arriving at any time: the server creates a task for each.
LoopSubmitSameCity ==
    /\ ThreadFree
    /\ Len(loop.tasks) < 2
    /\ \E city \in SameCity :
          loop' = [loop EXCEPT
                     !.tasks = Append(@, Task(0, "WeatherService.get_weather",
                                              SvcArgs(city, TRUE),
                                              get_weather_enter(city, TRUE),
                                              "ready"))]
    /\ UNCHANGED <<store, now, stack, rt, ret, stats, populated>>

\* The loop runs a task that is ready.
LoopSchedule ==
    /\ ThreadFree
    /\ \E t \in Tasks :
          /\ loop.tasks[t].wait = "ready"
          /\ loop' = [loop EXCEPT !.running = t, !.tasks[t].wait = "running"]
    /\ UNCHANGED <<store, now, stack, rt, ret, stats, populated>>

\* results = await asyncio.gather(*tasks, return_exceptions=True): a task is
\* created for each city and the running task waits for them all.
LoopGather ==
    /\ loop.running # 0
    /\ LET t == loop.running
           task == loop.tasks[t]
       IN  /\ Gathering(task)
           /\ LET act == task.stack[Len(task.stack) - 1]
                  cities == act.arg.items
                  child(i) ==
                      Task(t, "api.get_weather", PyStr(cities[i]),
                           Control(<<Act("api.get_weather", PyStr(cities[i]), "",
                                         None)>>,
                                   api_retry(api_retry_config), Pending),
                           "ready")
              IN  loop' =
                     [tasks |->
                         [loop.tasks EXCEPT
                             ![t] = Moved(task, Control(Pop(task.stack), NoFrame,
                                                        Pending), "gather")]
                         \o [i \in 1..Len(cities) |-> child(i)],
                      running |-> 0, finished |-> loop.finished,
                      writes |-> loop.writes]
    /\ UNCHANGED <<store, now, stack, rt, ret, stats, populated>>

\* The wrapper of the running task invokes its function.  A function of the
\* cache calls boto3 and has its answer before it returns; get_weather of the
\* client sends its request and awaits the response.
LoopInvoke ==
    /\ loop.running # 0
    /\ LET t == loop.running
           task == loop.tasks[t]
           act == Top(task.stack)
       IN  /\ task.stack # <<>>
           /\ ~Gathering(task)
           /\ task.rt.status = "running"
           /\ IF task.rt.variant = "sync"
              THEN \E event \in LoopStoreEvents(task.rt.calls + 1), u \in LoopJitterDraws :
                      LET did == Invoke(act, store, now, event, task.rt.calls + 1)
                      IN  /\ loop' = [loop EXCEPT
                                        !.tasks[t].rt = Iteration(task.rt, did.out, u),
                                        !.writes = IF did.out.ok
                                                   THEN @ \o Written(act, now)
                                                   ELSE @]
                          /\ store' = did.table
              ELSE /\ loop' = [loop EXCEPT !.tasks[t].wait = "io", !.running = 0]
                   /\ UNCHANGED store
    /\ UNCHANGED <<now, stack, rt, ret, stats, populated>>

\* The response of the provider arrives: the loop resumes the task, whose
\* wrapper handles what the function did.
LoopResponse ==
    /\ ThreadFree
    /\ \E t \in Tasks :
          LET task == loop.tasks[t]
          IN  /\ task.wait = "io"
              /\ \E event \in LoopHttpEvents(task.rt.calls + 1), u \in LoopJitterDraws :
                    LET did == Invoke(Top(task.stack), store, now, event,
                                      task.rt.calls + 1)
                    IN  loop' = [loop EXCEPT
                                   !.tasks[t].rt = Iteration(task.rt, did.out, u),
                                   !.tasks[t].wait = "running",
                                   !.running = t]
    /\ UNCHANGED <<store, now, stack, rt, ret, stats, populated>>

\* The wrapper of the running task sleeps before its next attempt:
\* retry_async awaits asyncio.sleep(delay), which suspends the task;
\* retry_sync calls time.sleep(delay), which returns when the delay is over.
LoopSleep ==
    /\ loop.running # 0
    /\ LET t == loop.running
           task == loop.tasks[t]
       IN  /\ task.rt.status = "sleeping"
           /\ IF task.rt.variant = "sync"
              THEN loop' = [loop EXCEPT !.tasks[t].rt = Woken(task.rt)]
              ELSE loop' = [loop EXCEPT !.tasks[t].wait = "timer", !.running = 0]
    /\ UNCHANGED <<store, now, stack, rt, ret, stats, populated>>

\* The delay of an asyncio.sleep is over: the loop resumes the task.
LoopTimer ==
    /\ ThreadFree
    /\ \E t \in Tasks :
          /\ loop.tasks[t].wait = "timer"
          /\ loop' = [loop EXCEPT !.tasks[t].rt = Woken(loop.tasks[t].rt),
                                  !.tasks[t].wait = "running",
                                  !.running = t]
    /\ UNCHANGED <<store, now, stack, rt, ret, stats, populated>>

\* The wrapper of the running task has ended: its function returns to its
\* caller, or ends the task.
LoopReturn ==
    /\ loop.running # 0
    /\ LET t == loop.running
           task == loop.tasks[t]
       IN  /\ task.rt.status \in {"returned", "raised"}
           /\ LET fn == Top(task.stack).fn
                  r == Unwrap(fn, task.rt)
                  ended == Pop(task.stack) = <<>>
              IN  loop' =
                     [tasks |->
                         [loop.tasks EXCEPT
                             ![t] = [Moved(task,
                                           Control(Pop(task.stack), NoFrame, r),
                                           IF ended THEN "done" ELSE "running")
                                     EXCEPT !.cached =
                                         IF fn = "cache.batch_get_weather" /\ r.ok
                                         THEN r.value ELSE @,
                                            !.escaped =
                                         @ \/ (fn \in CacheOps /\ ~r.ok)]],
                      running |-> IF ended THEN 0 ELSE t,
                      finished |-> IF ended /\ task.parent # 0
                                   THEN Append(loop.finished, t)
                                   ELSE loop.finished,
                      writes |-> loop.writes]
    /\ UNCHANGED <<store, now, stack, rt, ret, stats, populated>>

\* The coroutine of the running task goes on with what its await gave, to
\* its next call or to its end.
LoopResume ==
    /\ loop.running # 0
    /\ LET t == loop.running
           task == loop.tasks[t]
       IN  /\ task.stack # <<>>
           /\ task.rt.status = "none"
           /\ LET c == IF Top(task.stack).fn = "WeatherService.get_weather"
                       THEN get_weather_resume(Top(task.stack), task.ret)
                       ELSE get_batch_weather_resume(Top(task.stack), task.ret)
                  ended == c.stack = <<>>
              IN  loop' =
                     [tasks |->
                         [loop.tasks EXCEPT
                             ![t] = Moved(task, c,
                                          IF ended THEN "done" ELSE "running")],
                      running |-> IF ended THEN 0 ELSE t,
                      finished |-> loop.finished, writes |-> loop.writes]
    /\ UNCHANGED <<store, now, stack, rt, ret, stats, populated>>

\* Every task of a gather has ended: the loop resumes the task that awaits
\* the gather with the results, in the order of the tasks given to it.
LoopGatherJoin ==
    /\ ThreadFree
    /\ \E t \in Tasks :
          LET task == loop.tasks[t]
              act == Top(task.stack)
              cities == act.arg.items
              results == gather(loop, t)
          IN  /\ task.wait = "gather"
              /\ \A k \in Children(t) : loop.tasks[k].wait = "done"
              /\ loop' =
                    [tasks |->
                        [loop.tasks EXCEPT
                            ![t] = Moved(task,
                                         Control(Pop(task.stack), NoFrame,
                                                 Returned(PyMap(weather_data(
                                                     cities, results)))),
                                         "running")],
                     running |-> t, finished |-> loop.finished,
                     writes |-> loop.writes]
    /\ UNCHANGED <<store, now, stack, rt, ret, stats, populated>>

\* The service: requests to WeatherService, the clock and the table's
\* time-to-live.
Next ==
    \/ CallGetWeather
    \/ Attempt
    \/ Sleep
    \/ Return
    \/ GetWeatherResume
    \/ Finish
    \/ Tick
    \/ TtlExpire

Spec == Init /\ [][Next]_vars

\* DynamoDBCacheService called directly.
NextCache ==
    \/ CallCacheGet
    \/ CallCacheSet
    \/ CallCacheBatchGet
    \/ CallCacheBatchSet
    \/ CallCacheHealthCheck
    \/ Attempt
    \/ Sleep
    \/ Return
    \/ Finish
    \/ Tick
    \/ TtlExpire

SpecCache == Init /\ [][NextCache]_vars

\* The batch endpoint: requests to WeatherService.get_batch_weather, one after
\* the other within the time to live of what they cache.
NextBatch ==
    \/ CallGetBatchWeather
    \/ Attempt
    \/ Sleep
    \/ Return
    \/ ApiBatchResume
    \/ GetBatchWeatherResume
    \/ Finish

SpecBatch == Init /\ [][NextBatch]_vars

\* The batch operations of DynamoDBCacheService given long lists.
NextLimits ==
    \/ CallCacheBatchGetLong
    \/ CallCacheBatchSetLong
    \/ Attempt
    \/ Sleep
    \/ Return
    \/ Finish

SpecLimits == Init /\ [][NextLimits]_vars

\* The health checks of the provider's client, the cache and the service.
NextHealth ==
    \/ CallApiHealthCheck
    \/ CallHealthCheck
    \/ CallCacheHealthCheck
    \/ Attempt
    \/ Sleep
    \/ Return
    \/ ApiHealthResume
    \/ HealthCheckResume
    \/ Finish

SpecHealth == Init /\ [][NextHealth]_vars

\* The server: a request to each endpoint, served concurrently.
NextLoop ==
    \/ LoopSubmit
    \/ LoopSchedule
    \/ LoopGather
    \/ LoopInvoke
    \/ LoopResponse
    \/ LoopSleep
    \/ LoopTimer
    \/ LoopReturn
    \/ LoopResume
    \/ LoopGatherJoin

SpecLoop == Init /\ [][NextLoop]_vars

\* Both endpoints of the service, requested one after the other for spellings
\* of one city.
NextService ==
    \/ CallEndpoint
    \/ Attempt
    \/ Sleep
    \/ Return
    \/ GetWeatherResume
    \/ ApiBatchResume
    \/ GetBatchWeatherResume
    \/ Finish

SpecService == Init /\ [][NextService]_vars

\* The server: two requests for one city, served concurrently while time
\* passes.
NextRace ==
    \/ LoopSubmitSameCity
    \/ LoopSchedule
    \/ LoopInvoke
    \/ LoopResponse
    \/ LoopSleep
    \/ LoopTimer
    \/ LoopReturn
    \/ LoopResume
    \/ Tick

SpecRace == Init /\ [][NextRace]_vars

\* A decorated function called directly.
NextRetry == CallDecorated \/ Attempt \/ Sleep

SpecRetry == Init /\ [][NextRetry]_vars

\* The same, the decorated function returning or raising whenever it is
\* invoked and time.sleep / asyncio.sleep returning when the delay is over.
SpecRetryFair == SpecRetry /\ WF_vars(Attempt) /\ WF_vars(Sleep)

(***************************************************************************)
(* The retry wrappers (SpecRetry).                                         *)
(***************************************************************************)
Decorated == stack # <<>> /\ Top(stack).fn = "decorated"

AllRetryable(hist) == \A i \in 1..Len(hist) : hist[i] = "retryable"

\* C4: with max_attempts = N >= 1, an operation that fails with a retryable
\* error on every attempt is invoked exactly N times (the wrapper goes on while
\* fewer than N attempts have failed, and never makes more than N), and then
\* RetryError is raised, carrying N and the error of the N-th attempt.
C4_RetryExhausted ==
    (Decorated /\ rt.config.max_attempts >= 1) =>
        LET N == rt.config.max_attempts
        IN  /\ rt.calls <= N
            /\ (AllRetryable(rt.hist) /\ Len(rt.hist) < N) =>
                  rt.status \in {"running", "sleeping"}
            /\ (AllRetryable(rt.hist) /\ Len(rt.hist) = N) =>
                  /\ rt.calls = N
                  /\ rt.status = "raised"
                  /\ rt.exc.type = "RetryError"
                  /\ rt.exc.attempts = N
                  /\ rt.exc.last_exception = rt.thrown
                  /\ rt.thrown.n = N

C4_Witness ==
    /\ Decorated
    /\ rt.config.max_attempts = 3
    /\ rt.hist = <<"retryable", "retryable", "retryable">>
    /\ rt.status = "raised"
    /\ rt.exc.type = "RetryError"
    /\ rt.exc.last_exception.n = 3

\* C5: an operation whose first attempt raises a non-retryable error is invoked
\* exactly once whatever max_attempts is, nothing is slept, and the caller gets
\* that very error, not a RetryError.
C5_NonRetryableOnce ==
    (Decorated /\ rt.hist # <<>> /\ rt.hist[1] = "fatal") =>
        /\ rt.calls = 1
        /\ rt.sleeps = 0
        /\ rt.status = "raised"
        /\ rt.exc = rt.thrown
        /\ rt.exc.type # "RetryError"
        /\ rt.exc.n = 1

C5_Witness ==
    /\ Decorated
    /\ rt.config.max_attempts = MaxAttempts
    /\ rt.hist = <<"fatal">>
    /\ rt.status = "raised"
    /\ rt.exc.type = "ValueError"

\* C6: an operation that fails retryably k times (0 <= k < max_attempts) and
\* succeeds on attempt k+1 is invoked exactly k+1 times, exactly k delays are
\* slept, and the wrapper returns that attempt's result: nothing follows the
\* success.
C6_SuccessEndsTheLoop ==
    Decorated =>
        \A j \in 1..Len(rt.hist) :
            rt.hist[j] = "ok" =>
                /\ j = Len(rt.hist)
                /\ j <= rt.config.max_attempts
                /\ AllRetryable(SubSeq(rt.hist, 1, j - 1))
                /\ rt.calls = j
                /\ rt.sleeps = j - 1
                /\ rt.status = "returned"
                /\ rt.value = PyInt(j)

C6_Witness ==
    /\ Decorated
    /\ rt.hist = <<"retryable", "retryable", "ok">>
    /\ rt.status = "returned"
    /\ rt.sleeps = 2

\* min(base_delay * backoff_multiplier^(n-1), max_delay), by repeated
\* multiplication.
RECURSIVE Scaled(_, _, _)
Scaled(x, k, times) == IF times = 0 THEN x ELSE Scaled(x * k, k, times - 1)

ExpectedBackoff(n, config) ==
    LET d == Scaled(config.base_delay, config.backoff_multiplier, n - 1)
    IN  IF d > config.max_delay THEN config.max_delay ELSE d

\* C7: with jitter disabled the delay slept after failed attempt n is exactly
\* min(base_delay * backoff_multiplier^(n-1), max_delay); for base 1 s and
\* multiplier 2 the delays are 1, 2, 4, 8 s, the 4th being 5 s under a
\* max_delay of 5 s.
C7_BackoffWithoutJitter ==
    (Decorated /\ rt.status = "sleeping" /\ ~rt.config.jitter) =>
        /\ rt.delay = ExpectedBackoff(rt.attempt, rt.config)
        /\ (rt.config.base_delay = 1000 /\ rt.config.backoff_multiplier = 2
            /\ rt.attempt <= 4) =>
              rt.delay = IF rt.config.max_delay = 5000
                         THEN <<1000, 2000, 4000, 5000>>[rt.attempt]
                         ELSE <<1000, 2000, 4000, 8000>>[rt.attempt]

C7_Witness ==
    /\ Decorated
    /\ rt.status = "sleeping"
    /\ ~rt.config.jitter
    /\ rt.config.base_delay = 1000
    /\ rt.config.backoff_multiplier = 2
    /\ rt.config.max_delay = 5000
    /\ rt.attempt = 4
    /\ rt.delay = 5000

\* C8: with jitter enabled and jitter_range r (> 0) every delay computed for
\* attempt n lies in [d*(1-r), d*(1+r)], d = min(base_delay *
\* backoff_multiplier^(n-1), max_delay), is never negative, and is not the
\* same for every admissible offset.
C8_JitterBounds ==
    (Decorated /\ rt.status = "sleeping" /\ rt.config.jitter) =>
        LET d == ExpectedBackoff(rt.attempt, rt.config)
            r == rt.config.jitter_range
        IN  /\ 100 * rt.delay >= d * (100 - r)
            /\ 100 * rt.delay <= d * (100 + r)
            /\ rt.delay >= 0
            /\ \E u1, u2 \in JitterDraws :
                  calculate_delay(rt.attempt, rt.config, u1)
                      # calculate_delay(rt.attempt, rt.config, u2)

C8_Witness ==
    /\ Decorated
    /\ rt.status = "sleeping"
    /\ rt.config.jitter
    /\ rt.config.jitter_range = 10
    /\ rt.config.base_delay = 1000
    /\ rt.config.backoff_multiplier = 2
    /\ rt.attempt = 2
    /\ rt.delay = 1800

(***************************************************************************)
(* DynamoDBCacheService (SpecCache).                                       *)
(***************************************************************************)
\* C1: every DynamoDBCacheService operation returns, and returns its empty
\* result (None / False / {} / 0 / False) when the store failed it, with a
\* retryable error on all max_attempts attempts or with a non-retryable error:
\* no exception reaches the caller.
C1_CacheNeverRaises ==
    (Done /\ stats.op \in CacheOps) =>
        /\ ret.ok
        /\ stats.gave_up => ret.value = EmptyResult(stats.op)

\* C9: get_weather and batch_get_weather return an entry only if now <
\* expires_at at the read: every record a read returns is that of an item of
\* the table that has not reached its expires_at, however long the item stays
\* in the table.
C9_NoExpiredRead ==
    /\ (Done /\ stats.op = "cache.get_weather" /\ ret.ok /\ ret.value # None) =>
          /\ \E i \in store : i.city = ret.value.city
          /\ \A i \in store : i.city = ret.value.city => now < i.expires_at
    /\ (Done /\ stats.op = "cache.batch_get_weather" /\ ret.ok) =>
          \A w \in ret.value.values :
              /\ \E i \in store : i.city = w.city
              /\ \A i \in store : i.city = w.city => now < i.expires_at

\* The store answered a get_weather at the very second the item expires.
C9_Witness ==
    /\ Done
    /\ stats.op = "cache.get_weather"
    /\ ~stats.gave_up
    /\ ret = Returned(None)
    /\ \E i \in store :
          /\ title(strip(i.city)) = title(strip(stats.arg.s))
          /\ i.expires_at = now

normalize(city) == title(strip(city))

\* C10: the spelling of a request and any other spelling have the same
\* partition key exactly when they are equal after trim + title-case, the key
\* being "WEATHER#" + normalize(city); so get_weather under one spelling
\* returns the unexpired record set_weather stored under any spelling that
\* normalizes identically, and only such a record.
C10_SpellingsShareKey ==
    (Done /\ stats.op = "cache.get_weather") =>
        /\ _generate_cache_key(stats.arg.s) = <<"WEATHER#">> \o normalize(stats.arg.s)
        /\ \A c \in Cities \cup ProviderNames :
              (normalize(stats.arg.s) = normalize(c))
                  <=> (_generate_cache_key(stats.arg.s) = _generate_cache_key(c))
        /\ ~stats.gave_up =>
              /\ ret.ok
              /\ \A i \in store :
                    (normalize(i.city) = normalize(stats.arg.s)
                        /\ now < i.expires_at)
                            => ret.value = WeatherResponse(i.city)
              /\ ret.value # None =>
                    normalize(ret.value.city) = normalize(stats.arg.s)

\* get_weather returned the record stored under another spelling.
C10_Witness ==
    /\ Done
    /\ stats.op = "cache.get_weather"
    /\ ret.ok
    /\ ret.value # None
    /\ ret.value.city # stats.arg.s
    /\ normalize(ret.value.city) = normalize(stats.arg.s)

(***************************************************************************)
(* WeatherService.get_weather (Spec).                                      *)
(***************************************************************************)
\* C2: WeatherService.get_weather returns the provider's record whenever the
\* call to the provider succeeded, whatever the cache store did to the cache
\* read before it and to the cache write after it.
C2_CacheFailureNeverFailsRequest ==
    (Done /\ stats.op = "WeatherService.get_weather" /\ stats.api = "ok") =>
        /\ ret.ok
        /\ ret.value = stats.record

\* C3: a get_weather(city) that follows, before the entry's expires_at and
\* with no other change of the table, a get_weather(city) of the same spelling
\* that missed, was served by the provider and wrote the cache, and whose own
\* cache read the store answers, makes no call to the provider.
C3_ReadThrough ==
    (Done /\ stats.op = "WeatherService.get_weather" /\ stats.fresh) =>
        stats.http = 0

(***************************************************************************)
(* WeatherService.get_batch_weather (SpecBatch).                           *)
(***************************************************************************)
BatchDone == Done /\ stats.op = "WeatherService.get_batch_weather"

\* The cities of a list in the order of their first occurrences.
FirstOccurrences(cities) ==
    LET firsts == {i \in 1..Len(cities) :
                      \A j \in 1..(i - 1) : cities[j] # cities[i]}
        Nth(k) == CHOOSE i \in firsts : Cardinality({j \in firsts : j <= i}) = k
    IN  [k \in 1..Cardinality(firsts) |-> cities[Nth(k)]]

\* The record the request had for a city: the one the cache read returned
\* under that name, else the one the provider answered with; None if neither.
RecordOf(city) ==
    IF stats.cached # None /\ \E w \in stats.cached.values : w.city = city
    THEN CHOOSE w \in stats.cached.values : w.city = city
    ELSE IF \E i \in 1..Len(stats.outcomes) :
                stats.outcomes[i].key = city /\ stats.outcomes[i].value.ok
    THEN LET i == CHOOSE i \in 1..Len(stats.outcomes) :
                      stats.outcomes[i].key = city /\ stats.outcomes[i].value.ok
         IN  WeatherResponse(stats.outcomes[i].value.value.name)
    ELSE None

HasRecord(city) == RecordOf(city) # None

\* C11: get_batch_weather removes the duplicates of the input keeping first
\* occurrences, and its results are the records of the unique cities that have
\* one, in first-occurrence order: one record at most for each city, however
\* often it is repeated.
C11_FirstOccurrenceOrder ==
    (BatchDone /\ ret.ok) =>
        LET unique == FirstOccurrences(stats.arg.cities)
            found == SelectSeq(unique, HasRecord)
        IN  /\ ret.value.total_cities = Len(unique)
            /\ Len(ret.value.results) <= Len(unique)
            /\ ret.value.results = [i \in 1..Len(found) |-> RecordOf(found[i])]

\* A city repeated after another one, both with a record.
C11_Witness ==
    /\ BatchDone
    /\ ret.ok
    /\ Len(stats.arg.cities) = 3
    /\ stats.arg.cities[1] = stats.arg.cities[3]
    /\ stats.arg.cities[1] # stats.arg.cities[2]
    /\ Len(ret.value.results) = 2
    /\ ret.value.results[1] # ret.value.results[2]

Distinct(cities) == {cities[i] : i \in 1..Len(cities)}

\* The request passes the two tests get_batch_weather makes on its input.
Accepted ==
    /\ stats.arg.cities # <<>>
    /\ Len(stats.arg.cities) <= stats.arg.max_cities

CacheHits ==
    {city \in Distinct(stats.arg.cities) :
        stats.cached # None /\ \E w \in stats.cached.values : w.city = city}

Succeeded == {i \in 1..Len(stats.outcomes) : stats.outcomes[i].value.ok}

\* C12: whichever cities the provider fails (404, 401, another rejection,
\* retries exhausted), a get_batch_weather no cache operation raised into
\* raises nothing: every city the cache did not have is fetched, once, the
\* results are the cached records and the records of the fetches that
\* succeeded, successful_requests is their number, and nothing is returned
\* when every fetch fails.
C12_IndependentOutcomes ==
    (BatchDone /\ Accepted /\ ~stats.escaped) =>
        /\ ret.ok
        /\ \A city \in Distinct(stats.arg.cities) \ CacheHits :
              Cardinality({i \in 1..Len(stats.outcomes) :
                              stats.outcomes[i].key = city}) = 1
        /\ \A i \in Succeeded :
              \E k \in 1..Len(ret.value.results) :
                  ret.value.results[k]
                      = WeatherResponse(stats.outcomes[i].value.value.name)
        /\ Len(ret.value.results) = Cardinality(Succeeded) + Cardinality(CacheHits)
        /\ ret.value.successful_requests
              = Cardinality(Succeeded) + Cardinality(CacheHits)
        /\ (Succeeded = {} /\ CacheHits = {}) =>
              (ret.value.results = <<>> /\ ret.value.successful_requests = 0)

\* One city served, the other one not found.
C12_Witness ==
    /\ BatchDone
    /\ ret.ok
    /\ Len(stats.outcomes) = 2
    /\ stats.outcomes[1].value.ok
    /\ ~stats.outcomes[2].value.ok
    /\ stats.outcomes[2].value.exc.status = 404
    /\ ret.value.total_cities = 2
    /\ ret.value.successful_requests = 1

\* C13: get_batch_weather raises its invalid-request WeatherAPIError exactly
\* when cities is empty or longer than max_cities, the length being that of
\* the list as given, duplicates included; a rejected request has made no
\* cache read, no provider call and no cache write.
C13_RejectsInvalidBatch ==
    BatchDone =>
        /\ ~Accepted =>
              /\ ~ret.ok
              /\ ret.exc.type = "WeatherAPIError"
              /\ ret.exc.code # "Batch service error"
              /\ stats.http = 0
              /\ stats.outcomes = <<>>
              /\ ~stats.touched
        /\ Accepted => (ret.ok \/ ret.exc.code = "Batch service error")

\* A list too long as given that would fit without its duplicates.
C13_Witness ==
    /\ BatchDone
    /\ Len(stats.arg.cities) > stats.arg.max_cities
    /\ Cardinality(Distinct(stats.arg.cities)) <= stats.arg.max_cities
    /\ ~ret.ok
    /\ ~stats.touched

\* C14: every BatchWeatherResponse has successful_requests = len(results),
\* total_cities = the number of distinct input cities, and
\* 0 <= successful_requests <= total_cities <= len(cities) <= max_cities.
C14_BatchCounts ==
    (BatchDone /\ ret.ok) =>
        /\ ret.value.kind = "BatchWeatherResponse"
        /\ ret.value.successful_requests = Len(ret.value.results)
        /\ ret.value.total_cities = Cardinality(Distinct(stats.arg.cities))
        /\ 0 <= ret.value.successful_requests
        /\ ret.value.successful_requests <= ret.value.total_cities
        /\ ret.value.total_cities <= Len(stats.arg.cities)
        /\ Len(stats.arg.cities) <= stats.arg.max_cities

\* Fewer records than unique cities, fewer unique cities than cities.
C14_Witness ==
    /\ BatchDone
    /\ ret.ok
    /\ ret.value.successful_requests = 1
    /\ ret.value.total_cities = 2
    /\ Len(stats.arg.cities) = 3

(***************************************************************************)
(* The limits of the batch operations (SpecLimits).                        *)
(***************************************************************************)
\* C15: batch_get_weather sends the keys of the first 100 cities and no more,
\* whatever the length of its list, and returns without an error when the
\* store answers; batch_set_weather sends and writes the first 25 records and
\* no more, and the count it returns is at most 25.
C15_BatchLimits ==
    /\ (stats.op = "cache.batch_get_weather" /\ stats.touched) =>
          LET cities == stats.arg.items
              n == IF Len(cities) < 100 THEN Len(cities) ELSE 100
          IN  /\ Len(stats.sent) <= 100
              /\ stats.sent = [j \in 1..n |->
                                  <<"WEATHER#">> \o normalize(cities[j])]
              /\ (Done /\ ~stats.gave_up) => (ret.ok /\ ret.value.kind = "dict")
    /\ (stats.op = "cache.batch_set_weather" /\ stats.touched) =>
          LET list == stats.arg.items
              n == IF Len(list) < 25 THEN Len(list) ELSE 25
          IN  /\ Len(stats.sent) = n
              /\ \A j \in 1..n :
                    stats.sent[j] = <<"WEATHER#">> \o normalize(list[j].city)
              /\ Cardinality(store) <= 25
              /\ (Done /\ ret.ok) => (ret.value.kind = "int" /\ ret.value.i <= 25)
              /\ (Done /\ ~stats.gave_up) => ret = Returned(PyInt(n))

\* batch_set_weather given 27 records has written 25.
C15_Witness ==
    /\ Done
    /\ stats.op = "cache.batch_set_weather"
    /\ Len(stats.arg.items) = 27
    /\ ret = Returned(PyInt(25))
    /\ Cardinality(store) = 25

(***************************************************************************)
(* The provider's failures on the single-city path (Spec).                 *)
(***************************************************************************)
GetWeatherDone == Done /\ stats.op = "WeatherService.get_weather"

\* OpenWeatherMapClient.get_weather is running for the request.
InApiGetWeather == stack # <<>> /\ Top(stack).fn = "api.get_weather"

\* C16: when the call to the provider fails, WeatherService.get_weather raises
\* the error OpenWeatherMapClient.get_weather raised, of the same type and with
\* the same status code: not found, unauthorized, another rejection or retries
\* exhausted.
C16_ProviderErrorUnchanged ==
    (GetWeatherDone /\ stats.api = "failed") =>
        /\ ~ret.ok
        /\ ret.exc.type = stats.outcomes[1].value.exc.type
        /\ ret.exc.status = stats.outcomes[1].value.exc.status

\* C17: OpenWeatherMapClient.get_weather makes one HTTP request when the
\* provider answers it with 404, 401 or another 4xx, and raises a
\* WeatherAPIError with that status; it goes on after a 5xx, a connection
\* error or a timeout, for API_MAX_ATTEMPTS = 3 requests at most.
C17_ProviderRetryPolicy ==
    (InApiGetWeather /\ SendsRequest(Top(stack).arg.s)) =>
        /\ stats.http = rt.calls
        /\ rt.calls <= 3
        /\ rt.config.max_attempts = 3
        /\ (rt.calls >= 1 /\ rt.thrown.type = "WeatherAPIError") =>
              /\ rt.thrown.status \in {404, 401, 429}
              /\ rt.status = "raised"
              /\ rt.exc = rt.thrown
        /\ (rt.calls >= 1 /\ rt.hist[1] = "fatal") =>
              (rt.calls = 1 /\ rt.sleeps = 0 /\ rt.thrown.type = "WeatherAPIError")
        /\ (rt.calls >= 1 /\ rt.hist[rt.calls] # "ok"
               /\ rt.thrown.type \in {"ClientResponseError", "ClientConnectionError",
                                      "asyncio.TimeoutError"}) =>
              /\ rt.thrown.type = "ClientResponseError" =>
                    (500 <= rt.thrown.status /\ rt.thrown.status < 600)
              /\ rt.hist[rt.calls] = "retryable"
              /\ rt.calls < 3 => rt.status \in {"sleeping", "running"}
              /\ rt.calls = 3 => (rt.status = "raised" /\ rt.exc.type = "RetryError")

\* Three requests, a 5xx, a connection error or a timeout each time.
C17_Witness ==
    /\ InApiGetWeather
    /\ stats.http = 3
    /\ rt.hist = <<"retryable", "retryable", "retryable">>
    /\ rt.thrown.type = "ClientResponseError"
    /\ rt.status = "raised"

\* C18: OpenWeatherMapClient.get_weather given an empty or whitespace-only
\* city fails at its first attempt with an error that is not retried: the body
\* runs once and no HTTP request is made.
C18_BlankCityFailsAtOnce ==
    (InApiGetWeather /\ Top(stack).arg.s \in BlankCities /\ rt.status # "running") =>
        /\ rt.calls = 1
        /\ rt.sleeps = 0
        /\ rt.hist = <<"fatal">>
        /\ rt.status = "raised"
        /\ rt.exc.type = "WeatherAPIError"
        /\ stats.http = 0

C18_Witness ==
    /\ InApiGetWeather
    /\ Top(stack).arg.s = <<" ">>
    /\ rt.status = "raised"
    /\ rt.calls = 1
    /\ stats.http = 0

\* C19: GET /weather/{city} answers a provider failure with the status of its
\* kind: 404 for the provider's 404, 401 for its 401, 503 for an outage
\* (retries exhausted) and for any other rejection; never 500.
C19_StatusOfProviderFailure ==
    (GetWeatherDone /\ stats.api = "failed") =>
        LET e == stats.outcomes[1].value.exc
            status == get_weather_endpoint(ret)
        IN  /\ (e.type = "WeatherAPIError" /\ e.status = 404) => status = 404
            /\ (e.type = "WeatherAPIError" /\ e.status = 401) => status = 401
            /\ ~(e.type = "WeatherAPIError" /\ e.status \in {404, 401})
                  => status = 503
            /\ status # 500

\* An outage: the retries exhausted, answered with 503.
C19_Witness ==
    /\ GetWeatherDone
    /\ stats.api = "failed"
    /\ stats.http = 3
    /\ stats.outcomes[1].value.exc.type = "RetryError"
    /\ get_weather_endpoint(ret) = 503

\* C20: an invalid request - an empty or whitespace-only city on the
\* single-city path, an empty or too long list on the batch path - is answered
\* with a 4xx status, never with a 5xx.
C20_InvalidRequestIs4xx ==
    /\ (GetWeatherDone /\ stats.arg.s \in BlankCities /\ ~stats.escaped) =>
          get_weather_endpoint(ret) \in 400..499
    /\ (BatchDone /\ ~Accepted) => get_batch_weather_endpoint(ret) \in 400..499

(***************************************************************************)
(* The health checks (SpecHealth).                                         *)
(***************************************************************************)
\* C21: OpenWeatherMapClient.health_check returns True exactly when its
\* get_weather probe succeeded, and returns False, raising nothing, whenever
\* the probe failed: rejected by the provider, or failing at every attempt.
C21_ProviderHealthNeverRaises ==
    (Done /\ stats.op = "api.health_check") =>
        /\ ret.ok
        /\ ret.value = PyBool(stats.api = "ok")

\* C22: the status WeatherService.health_check reports is "healthy" exactly
\* when the provider's health check and a probe of the cache store both
\* succeeded, checks.cache telling what the probe of the store gave.
C22_HealthAggregates ==
    (Done /\ stats.op = "WeatherService.health_check" /\ ret.ok) =>
        LET cache_probed == stats.touched /\ ~stats.gave_up
        IN  /\ ret.value.status = "healthy" <=> (stats.api = "ok" /\ cache_probed)
            /\ ret.value.cache = "healthy" => cache_probed

(***************************************************************************)
(* The event loop (SpecLoop).                                              *)
(***************************************************************************)
\* The task waits in the backoff of a retry: in asyncio.sleep, or in
\* time.sleep, the delay computed and the next attempt not begun.
BackingOff(t) ==
    /\ loop.tasks[t].rt.status = "sleeping"
    /\ loop.tasks[t].rt.variant = "sync" \/ loop.tasks[t].wait = "timer"

\* The loop can resume the task as soon as its thread is free.
Resumable(t) == loop.tasks[t].wait \in {"ready", "io", "timer"}

\* C23: while a task waits in the backoff of a retry, of the provider's
\* client or of the cache, every other task the loop can resume is able to
\* take its step: the thread of the loop is free.
C23_BackoffSuspends ==
    \A t, u \in Tasks :
        (t # u /\ BackingOff(t) /\ Resumable(u)) => ThreadFree

BatchTasks == {t \in Tasks : loop.tasks[t].fn = "WeatherService.get_batch_weather"}

\* The record the batch of task t had for a city: the one its cache read
\* returned under that name, else the one the fetch of the city got.
LoopRecordOf(t, city) ==
    LET task == loop.tasks[t]
        fetched == {k \in Children(t) :
                       loop.tasks[k].arg.s = city /\ loop.tasks[k].ret.ok}
    IN  IF task.cached # None /\ \E w \in task.cached.values : w.city = city
        THEN CHOOSE w \in task.cached.values : w.city = city
        ELSE IF fetched # {}
        THEN WeatherResponse(loop.tasks[CHOOSE k \in fetched : TRUE].ret.value.name)
        ELSE None

\* C24: in whatever order the fetches of a batch are resumed and end, slow,
\* retrying or failing, the response is the one a serial run gives for the
\* same per-city outcomes: the records of the cities that have one, in
\* first-occurrence order; every fetch has ended, no failure of a fetch fails
\* the batch, and a fetch that waits for its response or in its backoff does
\* not hold the thread its siblings need.
C24_GatherOrderIndependent ==
    /\ \A t \in BatchTasks :
          (loop.tasks[t].wait = "done" /\ ~loop.tasks[t].escaped) =>
              LET task == loop.tasks[t]
                  unique == FirstOccurrences(task.arg.cities)
                  Has(city) == LoopRecordOf(t, city) # None
                  found == SelectSeq(unique, Has)
              IN  /\ task.ret.ok
                  /\ task.ret.value.results
                        = [i \in 1..Len(found) |-> LoopRecordOf(t, found[i])]
                  /\ task.ret.value.total_cities = Len(unique)
                  /\ \A k \in Children(t) : loop.tasks[k].wait = "done"
    /\ \A k \in Tasks :
          (loop.tasks[k].parent # 0 /\ loop.tasks[k].wait # "running")
              => loop.running # k

\* Two fetches, the second ended first and failed, the first one served.
C24_Witness ==
    \E t \in BatchTasks :
        /\ loop.tasks[t].wait = "done"
        /\ Len(loop.tasks[t].arg.cities) = 2
        /\ Len(loop.finished) = 2
        /\ loop.finished[1] > loop.finished[2]
        /\ loop.tasks[loop.finished[2]].ret.ok
        /\ ~loop.tasks[loop.finished[1]].ret.ok
        /\ Len(loop.tasks[t].ret.value.results) = 1

(***************************************************************************)
(* The cache in WeatherService.get_batch_weather (SpecBatch).              *)
(***************************************************************************)
\* The cache read of the request returned an unexpired entry of the city's
\* normalized key.
HasEntry(city) ==
    /\ stats.cached # None
    /\ \E w \in stats.cached.values : normalize(w.city) = normalize(city)

Fetches(city) == {i \in 1..Len(stats.outcomes) : stats.outcomes[i].key = city}

\* C25: get_batch_weather calls the provider exactly for the unique cities
\* that have no valid cache entry: a city whose normalized key has an
\* unexpired entry is not fetched, whatever its spelling in the request and
\* whatever display name the entry holds; every other city is fetched once.
C25_FetchesOnlyMisses ==
    (BatchDone /\ Accepted /\ ~stats.escaped) =>
        \A city \in Distinct(stats.arg.cities) :
            /\ HasEntry(city) => Fetches(city) = {}
            /\ ~HasEntry(city) => Cardinality(Fetches(city)) = 1

\* C26: whatever the cache store failed, the batch read or the batch write,
\* with a retryable or a non-retryable error, get_batch_weather raises
\* nothing and returns the records and counts of the request: the cached
\* records the read returned, if any, and those of the fetches.
C26_CacheFailureNeverFailsBatch ==
    (BatchDone /\ Accepted /\ stats.gave_up) =>
        /\ ret.ok
        /\ ret.value.total_cities = Cardinality(Distinct(stats.arg.cities))
        /\ ret.value.successful_requests
              = Cardinality(Succeeded) + Cardinality(CacheHits)

(***************************************************************************)
(* A cache hit of WeatherService.get_weather (Spec).                       *)
(***************************************************************************)
\* C27: when its cache read returns a record, WeatherService.get_weather
\* returns that record and does nothing else: no call to the provider, no
\* request sent, and the entry of the city is the one the read found, with
\* its expires_at.
C27_HitHasNoEffect ==
    (GetWeatherDone /\ stats.hit # None) =>
        /\ ret = Returned(stats.hit)
        /\ stats.http = 0
        /\ stats.api = "none"
        /\ stats.outcomes = <<>>
        /\ get_item(store, _generate_cache_key(stats.arg.s)) = stats.entry
        /\ \A i \in stats.entry : i.city = stats.hit.city /\ now < i.expires_at

\* A hit on an entry written at an earlier time.
C27_Witness ==
    /\ GetWeatherDone
    /\ stats.hit # None
    /\ ret = Returned(stats.hit)
    /\ \E i \in stats.entry : i.expires_at < _generate_expires_at(now)

(***************************************************************************)
(* The retryability of the store's errors (SpecHealth).                    *)
(***************************************************************************)
InCacheOp == stack # <<>> /\ Top(stack).fn \in CacheOps

ThrottlingAndServerCodes ==
    {"ThrottlingException", "ProvisionedThroughputExceededException",
     "RequestLimitExceeded", "ServiceUnavailable", "InternalServerError"}

ClientFaultCodes ==
    {"ValidationException", "AccessDenied", "InvalidParameterValue",
     "ResourceNotFound", "ItemNotFound", "ResourceNotFoundException"}

\* C28: should_retry_exception is true of a ClientError with a throttling,
\* provisioned-throughput-exceeded, request-limit-exceeded,
\* service-unavailable or internal-server-error code and false with a
\* validation, access-denied, invalid-parameter or not-found code; so a cache
\* operation that meets the first kind goes on to a next attempt, up to 3,
\* and one that meets the second kind makes no further attempt: exactly one
\* when its first attempt meets it.
C28_StoreRetryability ==
    /\ \A code \in ThrottlingAndServerCodes :
          should_retry_exception(Exc("ClientError", 0, code, 1), {"ClientError"})
    /\ \A code \in ClientFaultCodes :
          ~should_retry_exception(Exc("ClientError", 0, code, 1), {"ClientError"})
    /\ (InCacheOp /\ rt.calls >= 1 /\ rt.hist[rt.calls] # "ok"
           /\ rt.thrown.type = "ClientError") =>
          /\ rt.config.max_attempts = 3
          /\ rt.calls <= 3
          /\ rt.thrown.code \in ThrottlingAndServerCodes =>
                /\ rt.hist[rt.calls] = "retryable"
                /\ rt.calls < 3 => rt.status \in {"sleeping", "running"}
                /\ rt.calls = 3 => (rt.status = "raised" /\ rt.exc.type = "RetryError")
          /\ rt.thrown.code \in ClientFaultCodes =>
                /\ rt.hist[rt.calls] = "fatal"
                /\ rt.status = "raised"
                /\ rt.exc = rt.thrown
                /\ rt.thrown.n = rt.calls
                /\ rt.hist[1] = "fatal" => (rt.calls = 1 /\ rt.sleeps = 0)

\* The throughput exceeded at each of three attempts.
C28_Witness ==
    /\ InCacheOp
    /\ rt.calls = 3
    /\ rt.hist = <<"retryable", "retryable", "retryable">>
    /\ rt.thrown.code = "ProvisionedThroughputExceededException"
    /\ rt.status = "raised"

(***************************************************************************)
(* The batch operations of the cache (SpecCache).                          *)
(***************************************************************************)
\* C29: the keys batch_get_weather sends to the store in one batch read hold
\* no (PK, SK) pair twice, whatever its list of cities, two spellings of one
\* normalized name included (SK is "DATA" in every key).
C29_BatchGetKeysDistinct ==
    (stats.op = "cache.batch_get_weather" /\ stats.touched) =>
        \A i, j \in 1..Len(stats.sent) :
            stats.sent[i] = stats.sent[j] => i = j

\* C30: the records one successful batch_set_weather wrote have the same
\* expires_at, so that at any later time they are all valid or all expired.
C30_OneExpiryPerBatch ==
    (Done /\ stats.op = "cache.batch_set_weather" /\ ret.ok /\ ~stats.gave_up) =>
        LET written == {i \in store : \E j \in 1..Len(stats.sent) : i.PK = stats.sent[j]}
        IN  /\ Cardinality(written) = Cardinality({stats.sent[j] : j \in 1..Len(stats.sent)})
            /\ \A i, k \in written : i.expires_at = k.expires_at
            /\ \A clock \in 0..(MaxClock + ttl_minutes) :
                  \/ \A i \in written : _is_cache_valid(i, clock)
                  \/ \A i \in written : ~_is_cache_valid(i, clock)

\* Two records written by one call at a time when the entry of one of them,
\* written earlier, had another expires_at.
C30_Witness ==
    /\ Done
    /\ stats.op = "cache.batch_set_weather"
    /\ ret = Returned(PyInt(2))
    /\ now > 0
    /\ Cardinality(store) = 2
    /\ \A i \in store : i.expires_at = _generate_expires_at(now)

(***************************************************************************)
(* The two wrappers compared (SpecRetry).                                  *)
(***************************************************************************)
\* C31: retry_sync and retry_async differ only in how they wait: entered with
\* the same config and the same retryable exceptions, and standing at the same
\* attempt with the same locals, they do the same with every outcome of the
\* next invocation: the same count of invocations, the same delay requested
\* (the same arithmetic on the same jitter draw), the same result or error.
C31_SyncAsyncEquivalent ==
    Decorated =>
        /\ [retry_sync(rt.config, rt.retryable_exceptions) EXCEPT !.variant = "async"]
              = retry_async(rt.config, rt.retryable_exceptions)
        /\ rt.status = "running" =>
              \A outcome \in TestOutcomes(rt.calls + 1), u \in JitterDraws :
                  LET sf == retry_sync_iteration([rt EXCEPT !.variant = "sync"], outcome, u)
                      af == retry_async_iteration([rt EXCEPT !.variant = "async"], outcome, u)
                  IN  /\ sf.calls = af.calls
                      /\ sf.status = af.status
                      /\ sf.delay = af.delay
                      /\ sf.value = af.value
                      /\ sf.exc = af.exc
                      /\ [sf EXCEPT !.variant = "async"] = af
                      /\ [Woken(sf) EXCEPT !.variant = "async"] = Woken(af)

\* An asynchronous wrapper that has slept twice, the second delay jittered,
\* and stands before its third invocation.
C31_Witness ==
    /\ Decorated
    /\ rt.variant = "async"
    /\ rt.status = "running"
    /\ rt.sleeps = 2
    /\ rt.config.jitter
    /\ rt.hist = <<"retryable", "retryable">>

(***************************************************************************)
(* Concurrent requests for one city (SpecRace).                            *)
(***************************************************************************)
\* The last item of the writes completed so far that has partition key PK.
LastWrite(writes, PK) ==
    LET at == {i \in 1..Len(writes) : writes[i].PK = PK}
    IN  writes[CHOOSE i \in at : \A j \in at : j <= i]

\* C32: cache writes are unconditional, last write wins: however the requests
\* interleave, the store holds at most one entry for a key; the entries are
\* those of the keys written, each the item of the write of its key that
\* completed last; and every write the store answered is in effect, whether
\* or not an entry was there before.
C32_LastWriteWins ==
    /\ \A i, j \in store : i.PK = j.PK => i = j
    /\ store = {LastWrite(loop.writes, loop.writes[k].PK) : k \in 1..Len(loop.writes)}

\* Both requests missed, both fetched, both wrote the same key, the second
\* write later than the first; both have ended.
C32_Witness ==
    /\ Len(loop.tasks) = 2
    /\ \A t \in Tasks : loop.tasks[t].wait = "done" /\ loop.tasks[t].ret.ok
    /\ Len(loop.writes) = 2
    /\ loop.writes[1].PK = loop.writes[2].PK
    /\ loop.writes[1].expires_at < loop.writes[2].expires_at
    /\ store = {loop.writes[2]}

(***************************************************************************)
(* The retry wrappers, continued (SpecRetry).                              *)
(***************************************************************************)
\* C33: the delay calculate_delay gives never exceeds max_delay when jitter is
\* disabled, and never exceeds max_delay * (1 + jitter_range) when it is
\* enabled: the cap is applied before the jitter offset is added.
C33_DelayCap ==
    (Decorated /\ rt.status = "sleeping") =>
        /\ IF rt.config.jitter
           THEN 100 * rt.delay <= rt.config.max_delay * (100 + rt.config.jitter_range)
           ELSE rt.delay <= rt.config.max_delay
        /\ \A u \in JitterDraws :
              100 * calculate_delay(rt.attempt, rt.config, u)
                  <= rt.config.max_delay * (100 + rt.config.jitter_range)

\* A jittered delay above max_delay: the backoff of the fourth attempt is
\* capped at 5 s and the offset adds a tenth.
C33_Witness ==
    /\ Decorated
    /\ rt.status = "sleeping"
    /\ rt.config.jitter
    /\ rt.config.max_delay = 5000
    /\ rt.config.jitter_range = 10
    /\ rt.attempt = 4
    /\ rt.delay = 5500

\* The wrapper has ended: it returned or raised.
Ended == rt.status \in {"returned", "raised"}

\* C34: for every max_attempts >= 1 and every sequence of outcomes a wrapper
\* ends, after at most max_attempts invocations and at most max_attempts - 1
\* sleeps; a sleep is strictly between two invocations: none before the first
\* (a wrapper that sleeps has invoked, and as often as it has slept before,
\* plus once) and none after the last (a wrapper that sleeps has attempts
\* left, and one that has ended has slept once less than it has invoked).
C34_RetryTerminates ==
    /\ [](  (Decorated /\ rt.config.max_attempts >= 1) =>
              /\ rt.calls <= rt.config.max_attempts
              /\ rt.sleeps <= rt.config.max_attempts - 1
              /\ rt.status = "running" =>
                    rt.sleeps = rt.calls /\ rt.calls < rt.config.max_attempts
              /\ rt.status = "sleeping" =>
                    /\ rt.calls >= 1
                    /\ rt.sleeps = rt.calls - 1
                    /\ rt.calls < rt.config.max_attempts
              /\ Ended => rt.calls >= 1 /\ rt.sleeps = rt.calls - 1  )
    /\ (Decorated /\ rt.config.max_attempts >= 1) ~> Ended

\* Every attempt allowed was made and failed: max_attempts invocations,
\* max_attempts - 1 sleeps.
C34_Witness ==
    /\ Decorated
    /\ rt.config.max_attempts = MaxAttempts
    /\ rt.status = "raised"
    /\ rt.calls = MaxAttempts
    /\ rt.sleeps = MaxAttempts - 1

\* C35: the first attempt that fails non-retryably decides: when attempts
\* 1..k-1 failed retryably and attempt k (k <= max_attempts) fails
\* non-retryably, the operation has been invoked exactly k times, k - 1 delays
\* were slept, and the caller gets the error of attempt k itself, not a
\* RetryError and not the error of an earlier attempt.
C35_FirstFatalDecides ==
    Decorated =>
        \A k \in 1..Len(rt.hist) :
            rt.hist[k] = "fatal" =>
                /\ k = Len(rt.hist)
                /\ k <= rt.config.max_attempts
                /\ AllRetryable(SubSeq(rt.hist, 1, k - 1))
                /\ rt.calls = k
                /\ rt.sleeps = k - 1
                /\ rt.status = "raised"
                /\ rt.exc.type # "RetryError"
                /\ rt.exc = rt.thrown
                /\ rt.exc.n = k
                /\ ~should_retry_exception(rt.exc, rt.retryable_exceptions)

\* Two retryable failures, then the provider's 404 on the third attempt of an
\* asynchronous wrapper.
C35_Witness ==
    /\ Decorated
    /\ rt.variant = "async"
    /\ rt.hist = <<"retryable", "retryable", "fatal">>
    /\ rt.status = "raised"
    /\ rt.exc.type = "ClientResponseError"
    /\ rt.exc.status = 404
    /\ rt.exc.n = 3

\* The wrapper's last invocation failed with an exception of a type it
\* retries.
FailedLast(type) ==
    /\ rt.hist # <<>>
    /\ rt.hist[Len(rt.hist)] # "ok"
    /\ rt.thrown.type = type
    /\ isinstance(rt.thrown, rt.retryable_exceptions)

\* HTTP statuses around the limits of the client errors.
Statuses == {0, 200, 302, 399, 400, 404, 429, 499, 500, 503, 600}

\* C36: a ClientError of the store whose code is in neither list and does not
\* start with "5" is not retried (default deny): an operation that meets it on
\* its first attempt is attempted exactly once and it is raised as it is;
\* whereas a ClientResponseError is retried for every status outside 400-499
\* (default allow).
C36_DefaultDeny ==
    Decorated =>
        /\ (/\ FailedLast("ClientError")
            /\ rt.thrown.code \notin retryable_codes \cup non_retryable_codes
            /\ ~StartsWith5(rt.thrown.code)) =>
              /\ rt.hist[Len(rt.hist)] = "fatal"
              /\ rt.status = "raised"
              /\ rt.exc = rt.thrown
              /\ rt.thrown.n = 1 => rt.calls = 1 /\ rt.sleeps = 0
        /\ FailedLast("ClientResponseError") =>
              /\ rt.hist[Len(rt.hist)] = "retryable"
                    <=> ~(400 <= rt.thrown.status /\ rt.thrown.status < 500)
              /\ (rt.hist[Len(rt.hist)] = "retryable"
                  /\ rt.calls < rt.config.max_attempts) => ~Ended
        /\ rt.calls = 0 =>
              /\ \A status \in Statuses :
                    should_retry_exception(Exc("ClientResponseError", status, "", 1),
                                           api_retryable)
                        <=> ~(400 <= status /\ status < 500)
              /\ \A code \in ErrorCodes :
                    should_retry_exception(Exc("ClientError", 0, code, 1),
                                           {"ClientError"})
                        <=> (code \in retryable_codes \/ StartsWith5(code))

\* The store's wrapper gave up at once on a condition that failed, a code in
\* neither list.
C36_Witness ==
    /\ Decorated
    /\ rt.variant = "sync"
    /\ rt.retryable_exceptions = {"ClientError"}
    /\ rt.config.max_attempts = 3
    /\ rt.hist = <<"fatal">>
    /\ rt.calls = 1
    /\ rt.exc = Exc("ClientError", 0, "ConditionalCheckFailedException", 1)

\* The provider's wrapper retries a response error of status 399.
C36_WitnessRetried ==
    /\ Decorated
    /\ rt.variant = "async"
    /\ rt.status = "sleeping"
    /\ rt.thrown.type = "ClientResponseError"
    /\ rt.thrown.status = 399

(***************************************************************************)
(* Both endpoints, for spellings of one city (SpecService).                *)
(***************************************************************************)
InService ==
    stats.op \in {"WeatherService.get_weather", "WeatherService.get_batch_weather"}

\* The cities whose provider call failed in this request, and the records of
\* the provider calls that succeeded.
FailedFetches ==
    {stats.outcomes[i].key : i \in (1..Len(stats.outcomes)) \ Succeeded}

FetchedRecords ==
    {_convert_to_weather_response(stats.outcomes[i].value.value) : i \in Succeeded}

EntryOf(table, city) == get_item(table, _generate_cache_key(city))

\* C37, as stated: when the provider call of get_weather, or of a city of
\* get_batch_weather, fails, the entry of that city's key is at the end of the
\* request what it was at its start: none written, none modified.
C37_FailuresNotCached ==
    (Done /\ InService) =>
        \A city \in FailedFetches :
            EntryOf(store, city) = EntryOf(stats.before, city)

\* C37, amended: a request writes the records of its successful provider
\* calls and nothing else: an item the request put into the table is the item
\* of such a record, an item it replaced had the key of one, a request
\* without a successful call leaves the table as it found it, and the entry
\* of a city whose call failed is unchanged, hence looked up with the same
\* result as before, unless a record fetched for another city of the same
\* batch has that very key.
C37_OnlyFetchedRecordsCached ==
    InService =>
        /\ \A item \in store \ stats.before :
              \E w \in FetchedRecords :
                  item = CacheItem(_generate_cache_key(w.city), w,
                                   _generate_expires_at(now))
        /\ \A item \in stats.before \ store :
              \E w \in FetchedRecords : item.PK = _generate_cache_key(w.city)
        /\ FetchedRecords = {} => store = stats.before
        /\ \A city \in FailedFetches :
              (\A w \in FetchedRecords :
                  _generate_cache_key(w.city) # _generate_cache_key(city)) =>
                    /\ EntryOf(store, city) = EntryOf(stats.before, city)
                    /\ cache_get_weather_with_retry(city, store, now, NoException).out
                          = cache_get_weather_with_retry(city, stats.before, now,
                                                         NoException).out

\* A batch of two spellings: the provider failed one and answered the other,
\* whose record was written under another key; the failed city has no entry.
C37_Witness ==
    /\ BatchDone
    /\ ret.ok
    /\ Len(stats.outcomes) = 2
    /\ ~stats.outcomes[1].value.ok
    /\ stats.outcomes[2].value.ok
    /\ stats.before = {}
    /\ store # {}
    /\ EntryOf(store, stats.outcomes[1].key) = {}

\* C38: get_batch_weather removes duplicates by equality of the strings, not
\* of the cache keys: spellings that differ are each counted in total_cities,
\* each is looked up under its own name and, unless the cache returned a
\* record under that name, fetched by a provider call of its own, and each
\* that has a record has it in results, also when they share a cache key.
C38_DedupByString ==
    (BatchDone /\ ret.ok) =>
        LET unique == Distinct(stats.arg.cities)
        IN  /\ ret.value.total_cities = Cardinality(unique)
            /\ \A city \in unique :
                  IF city \in CacheHits THEN Fetches(city) = {}
                  ELSE Cardinality(Fetches(city)) = 1
            /\ Len(stats.outcomes) = Cardinality(unique \ CacheHits)
            /\ Len(ret.value.results) = Cardinality({city \in unique : HasRecord(city)})
            /\ ret.value.successful_requests = Len(ret.value.results)

\* "ab" and "Ab" in one batch: one cache key, two cities counted, two provider
\* calls, two records.
C38_Witness ==
    /\ BatchDone
    /\ ret.ok
    /\ stats.arg.cities = << <<"a", "b">>, <<"A", "b">> >>
    /\ _generate_cache_key(stats.arg.cities[1]) = _generate_cache_key(stats.arg.cities[2])
    /\ ret.value.total_cities = 2
    /\ stats.http = 2
    /\ Len(ret.value.results) = 2

(***************************************************************************)
(* The retry wrappers given no attempt (SpecRetry).                        *)
(***************************************************************************)
\* C39: RetryConfig keeps a max_attempts of 0 or less as it is given, and a
\* wrapper with such a config never invokes the operation, never sleeps, and
\* raises RetryError whose last_exception is None.
C39_NoAttemptRaises ==
    /\ \A m \in (0 - 1)..0 : RetryConfig(m, 500, 2, 5000, TRUE, 10).max_attempts = m
    /\ (Decorated /\ rt.config.max_attempts <= 0) =>
          /\ rt.calls = 0
          /\ rt.sleeps = 0
          /\ rt.hist = <<>>
          /\ rt.status = "raised"
          /\ rt.exc = RetryError(rt.config.max_attempts, NoException)
          /\ rt.exc.last_exception = NoException
          /\ rt.last_exception = NoException

\* The store's decorator given max_attempts = 0.
C39_Witness ==
    /\ Decorated
    /\ rt.variant = "sync"
    /\ rt.retryable_exceptions = {"ClientError"}
    /\ rt.config.max_attempts = 0
    /\ rt.status = "raised"
    /\ rt.exc.type = "RetryError"
    /\ rt.calls = 0

====
